---- MODULE Spec2Model ----
(***************************************************************************)
(* Three-phase stock redistribution (traslados): base needs, size-curve    *)
(* completion and warehouse drainage, as driven by                         *)
(* TrasladosOrchestrator.run_all.                                          *)
(*                                                                         *)
(* Representation choices                                                  *)
(*  - A string of the source (store name aside) is a sequence of           *)
(*    one-character strings, so that SKU = Referencia + Talla and the      *)
(*    drainer's sku[:7] / sku[7:] are real concatenation and slicing.      *)
(*  - Existencia is a rational with denominator Den (the least common      *)
(*    multiple of the possible row counts of a (Tienda, SKU) key): the     *)
(*    source divides a transfer's quantity by the number of rows of the    *)
(*    key and pandas upcasts the column to float.  A row field holds the   *)
(*    numerator.                                                           *)
(*  - ADU is a decimal with four places (the source rounds to 4): a field  *)
(*    holds ADU * ADU_SCALE.  Coverage comparisons are done by cross       *)
(*    multiplication, i.e. in exact arithmetic.                            *)
(*  - An optional value (None / NaN) is <<>>, a present one is <<v>>.      *)
(***************************************************************************)
EXTENDS Integers, Sequences, FiniteSets, TLC

VARIABLES
    stock_inicial,      \* the stock table the run started from (never written)
    stock,              \* the stock table of the running phase (a sequence of rows)
    df_ventas,          \* the sales table: [con_fecha, filas], a row is [Tienda, SKU, Unidades, Fecha]
    adu_map,            \* adu_df: (Tienda, SKU) -> ADU * ADU_SCALE
    tiempos_df,         \* lead-time table: set of rows [_O, _D, _ETA_NUM, _PRI_NUM]
    bodega_principal,   \* <<>> or <<name>>
    no_seed,
    allow_seed_if_adu,
    pc,                 \* position in run_all
    needs,              \* phase 1: the shortfalls not yet processed
    cur,                \* the loop record of the running phase
    transfers,          \* self.transfers of the running component
    traslados_fase1,
    traslados_fase2,
    traslados_fase3,
    opts,               \* run_all's arguments once they have been read
    total0,             \* sum of Existencia over the input stock (numerator)
    df_traslados,       \* the transfer table run_all returns
    last,               \* facts about the latest executed transfer, taken before it
    ejecutados,         \* every executed transfer with the phase that executed it, in execution order
    servida,            \* the shortfall phase 1 took last: what it found and what it left
    llamada,            \* the number of the run_all call on this orchestrator, from 1
    execution_state,    \* the web application's execution_state: [running, progress, error]
    servidor            \* the web server: requests waiting, accepted tasks not started, the task running, the answers given

vars == <<stock_inicial, stock, df_ventas, adu_map, tiempos_df, bodega_principal, no_seed, allow_seed_if_adu,
          pc, needs, cur, transfers, traslados_fase1, traslados_fase2,
          traslados_fase3, opts, total0, last, ejecutados, servida, llamada, execution_state, servidor,
          df_traslados>>

----------------------------------------------------------------------------
\* Bounds of the model

MaxRowsPerKey == 2
MaxVentasRows == 3

----------------------------------------------------------------------------
\* config/settings.py

MIN_POR_SKU_TIENDA == 2
MIN_POR_SKU_ECOM == 3
MAX_STOCK_PER_SKU == 6
ORIGIN_MIN_COV_DAYS == 7
DEST_TARGET_COV_DAYS == 7
ORIGIN_MIN_COV_ECOM == 7
DEST_TARGET_COV_ECOM == 7
COV_BUFFER_DAYS == 1

\* adu_calculator.py: ADU is rounded to 4 decimals; 30 days when there is no date
ADU_SCALE == 10000
DIAS_PERIODO_DEFAULT == 30

\* engine_core.py: sentinels of the ranking key
RANK_UNKNOWN == 999
COV_INF_RANK == 1000000000

\* data_loader.py: _PRI_NUM is a float; a field holds _PRI_NUM * PRI_DEN
PRI_DEN == 10

\* bodega_drainer.py: a safety ratio is held in thousandths, the clamp min(0.99, r)
\* and the length of a reference in a SKU (sku[:7])
RATIO_SCALE == 1000
RATIO_MAX == 990
REF_LEN == 7

----------------------------------------------------------------------------
\* Generic helpers

Min2(a, b) == IF a <= b THEN a ELSE b
Max2(a, b) == IF a >= b THEN a ELSE b

\* int(x) of Python for the rational n / d (d > 0): truncation toward zero
TruncDiv(n, d) == IF n >= 0 THEN n \div d ELSE -((-n) \div d)

\* ceil of the rational n / d for n >= 0, d > 0
CeilDiv(n, d) == (n + d - 1) \div d

RECURSIVE Gcd(_, _)
Gcd(a, b) == IF b = 0 THEN a ELSE Gcd(b, a % b)

RECURSIVE LcmUpTo(_)
LcmUpTo(n) == IF n <= 1 THEN 1 ELSE (LcmUpTo(n - 1) * n) \div Gcd(LcmUpTo(n - 1), n)

\* Denominator of every Existencia value
Den == LcmUpTo(MaxRowsPerKey)

RECURSIVE SumSet(_, _)
SumSet(S, f) ==
    IF S = {} THEN 0
    ELSE LET x == CHOOSE y \in S : TRUE IN f[x] + SumSet(S \ {x}, f)

SetMin(S) == CHOOSE x \in S : \A y \in S : x <= y

\* the ascending sequence of a finite set of integers
RECURSIVE SetToSeq(_)
SetToSeq(S) == IF S = {} THEN <<>> ELSE <<SetMin(S)>> \o SetToSeq(S \ {SetMin(S)})

\* Python's tuple comparison on integer tuples of one length
RECURSIVE LexLess(_, _)
LexLess(a, b) ==
    IF a = <<>> THEN FALSE
    ELSE IF a[1] < b[1] THEN TRUE
    ELSE IF a[1] > b[1] THEN FALSE
    ELSE LexLess(Tail(a), Tail(b))

\* list.sort / sort_values on records with an integer-tuple field k: stable
RECURSIVE InsertByKey(_, _)
InsertByKey(sorted, x) ==
    IF sorted = <<>> THEN <<x>>
    ELSE IF LexLess(x.k, sorted[1].k) THEN <<x>> \o sorted
    ELSE <<sorted[1]>> \o InsertByKey(Tail(sorted), x)

RECURSIVE SortByKey(_)
SortByKey(s) ==
    IF s = <<>> THEN <<>>
    ELSE InsertByKey(SortByKey(SubSeq(s, 1, Len(s) - 1)), s[Len(s)])

----------------------------------------------------------------------------
\* The stores, references and sizes of the model

BODEGA == "BODEGA PRINCIPAL"
CHIPICHAPE == "CALI CHIPICHAPE"
ECOMMERCE == "ECOMMERCE"
UNICENTRO == "CALI UNICENTRO"
BARRANQUILLA == "BARRANQUILLA UNICO"
BUGA == "BUGA PLAZA"
TIENDA_NUEVA == "TIENDA NUEVA"

\* str order of the store names used (Python compares strings by code point)
NameRank(t) ==
    CASE t = BARRANQUILLA -> 1
      [] t = BODEGA -> 2
      [] t = BUGA -> 3
      [] t = CHIPICHAPE -> 4
      [] t = UNICENTRO -> 5
      [] t = ECOMMERCE -> 6
      [] t = TIENDA_NUEVA -> 7
      [] OTHER -> 8

\* settings.STORE_CATEGORY restricted to the stores of the model
STORE_CATEGORY == (CHIPICHAPE :> "B") @@ (ECOMMERCE :> "A") @@ (UNICENTRO :> "B")
                  @@ (BARRANQUILLA :> "A") @@ (BUGA :> "C")

get_store_category(store_name) ==
    IF store_name \in DOMAIN STORE_CATEGORY THEN STORE_CATEGORY[store_name] ELSE "C"

\* {'A': 0, 'B': 1, 'C': 2}.get(cat, 3)
CatRank(cat) ==
    CASE cat = "A" -> 0
      [] cat = "B" -> 1
      [] cat = "C" -> 2
      [] OTHER -> 3

\* settings.CURVAS_TALLAS
CURVA_BEBES == << <<"0","M">>, <<"3","M">>, <<"6","M">>, <<"9","M">>,
                  <<"1","2","M">>, <<"1","8","M">> >>
CURVA_NINOS == << <<"2","T">>, <<"3","T">>, <<"4","T">>, <<"5","T">>,
                  <<"6">>, <<"8">>, <<"1","0">>, <<"1","2">> >>

REF1 == <<"1","2","3","4","5","6","7">>
T0M == <<"0","M">>
T3M == <<"3","M">>

\* core/normalization.build_sku: SKU = Referencia + Talla
build_sku(ref, talla) == ref \o talla

SKU_X == build_sku(REF1, T0M)
SKU_Y == build_sku(REF1, T3M)

\* stock_processor._convert_types: IsEcom from the store name
IsEcomOf(t) == t = ECOMMERCE

\* Region / RegionID columns of the input stock
RegionOf(t) ==
    CASE t = ECOMMERCE -> <<"BOGOTA">>
      [] t = BARRANQUILLA -> <<"ATLANTICO">>
      [] OTHER -> <<"VALLE">>

RegionIDOf(t) ==
    CASE t = ECOMMERCE -> <<2>>
      [] t = BARRANQUILLA -> <<1>>
      [] OTHER -> <<4>>

----------------------------------------------------------------------------
\* adu_calculator.py

\* round(x, 4) of total_units / dias_periodo, as ADU * ADU_SCALE (round half even)
RoundHalfEven(n, d) ==
    LET q == n \div d
        r == n % d
    IN  IF 2 * r < d THEN q
        ELSE IF 2 * r > d THEN q + 1
        ELSE IF q % 2 = 0 THEN q ELSE q + 1

\* calculate_adu_from_ventas: ventas is (Tienda, SKU) -> units sold, over
\* dias_periodo days; one ADU row per key that has sales rows
calculate_adu_from_ventas(ventas, dias_periodo) ==
    [key \in DOMAIN ventas |-> RoundHalfEven(ventas[key] * ADU_SCALE, dias_periodo)]

\* Unidades after pd.to_numeric(errors='coerce').fillna(0.0): <<>> is a value
\* that is not a number
UnidadesNum(fila) == IF fila.Unidades = <<>> THEN 0 ELSE fila.Unidades[1]

\* the rows kept for the sums: with a Fecha column, the rows whose date parses
\* (Fecha = <<dia>>); without one, every row
filas_con_fecha(df) ==
    IF df.con_fecha THEN SelectSeq(df.filas, LAMBDA fila : fila.Fecha # <<>>) ELSE df.filas

\* dias_periodo: the distinct days of the rows kept, the default when no row is
\* kept or when there is no Fecha column
dias_periodo(df) ==
    IF df.con_fecha
    THEN LET filas == filas_con_fecha(df)
             dias == Cardinality({filas[i].Fecha[1] : i \in DOMAIN filas})
         IN  IF filas = <<>> THEN DIAS_PERIODO_DEFAULT
             ELSE IF dias = 0 THEN 1 ELSE dias
    ELSE DIAS_PERIODO_DEFAULT

\* sum of Unidades over rows
RECURSIVE SumVentas(_)
SumVentas(filas) == IF filas = <<>> THEN 0 ELSE UnidadesNum(Head(filas)) + SumVentas(Tail(filas))

\* groupby(['Tienda', 'SKU']).agg(total_units = sum of Unidades)
total_units(filas) ==
    [key \in {<<filas[i].Tienda, filas[i].SKU>> : i \in DOMAIN filas} |->
        SumVentas(SelectSeq(filas, LAMBDA fila : <<fila.Tienda, fila.SKU>> = key))]

\* calculate_adu_from_ventas on the sales table: rows kept, period, sums, division
calculate_adu(df) ==
    calculate_adu_from_ventas(total_units(filas_con_fecha(df)), dias_periodo(df))

\* enrich_stock_with_adu: left join, missing ADU is 0
AduOf(adu, t, sku) == IF <<t, sku>> \in DOMAIN adu THEN adu[<<t, sku>>] ELSE 0

enrich_stock_with_adu(df_stock, adu) ==
    [i \in DOMAIN df_stock |->
        [Tienda |-> df_stock[i].Tienda, SKU |-> df_stock[i].SKU,
         Referencia |-> df_stock[i].Referencia, Talla |-> df_stock[i].Talla,
         Existencia |-> df_stock[i].Existencia, IsEcom |-> df_stock[i].IsEcom,
         Region |-> df_stock[i].Region, RegionID |-> df_stock[i].RegionID,
         ADU |-> AduOf(adu, df_stock[i].Tienda, df_stock[i].SKU)]]

----------------------------------------------------------------------------
\* Shared accessors of the three components (engine, completer, drainer)

\* idx_tienda_sku[(tienda, sku)]: the rows of a key
idx_tienda_sku(st, tienda, sku) ==
    {i \in DOMAIN st : st[i].Tienda = tienda /\ st[i].SKU = sku}

\* the numerator of the sum of Existencia over a set of rows
SumExistencia(st, rows) == SumSet(rows, [i \in DOMAIN st |-> st[i].Existencia])

get_stock(st, tienda, sku) ==
    LET indices == idx_tienda_sku(st, tienda, sku)
    IN  IF indices = {} THEN 0 ELSE TruncDiv(SumExistencia(st, indices), Den)

get_bodega_total(st, bodega) ==
    TruncDiv(SumExistencia(st, {i \in DOMAIN st : st[i].Tienda = bodega}), Den)

TotalExistencia(st) == SumExistencia(st, DOMAIN st)

\* enrich_stock_with_adu: the Cobertura_dias column, Existencia / ADU as the pair
\* <<Existencia * ADU_SCALE, ADU * Den>> when ADU > 0, else infinite (<<>>)
Cobertura_dias(row) ==
    IF row.ADU > 0 THEN <<row.Existencia * ADU_SCALE, row.ADU * Den>> ELSE <<>>

\* has_ref_now of can_seed_to_store: a row of the reference with Existencia > 0
has_ref_now(st, tienda, referencia) ==
    \E i \in DOMAIN st :
        /\ st[i].Tienda = tienda
        /\ st[i].Referencia = referencia
        /\ st[i].Existencia > 0

\* faulty variant: the demand exception does not look at the ADU of the SKU
can_seed_to_store_sin_adu(st, adu, noSeed, allowAdu, tienda, referencia, sku) ==
    IF has_ref_now(st, tienda, referencia) THEN TRUE
    ELSE IF noSeed THEN allowAdu ELSE TRUE

\* can_seed_to_store of the engine and of the drainer (same logic)
can_seed_to_store(st, adu, noSeed, allowAdu, tienda, referencia, sku) ==
    IF has_ref_now(st, tienda, referencia) THEN TRUE
    ELSE IF noSeed
         THEN allowAdu /\ AduOf(adu, tienda, sku) > 0
         ELSE TRUE

\* stock_df.loc[indices, 'Existencia'] += cantidad / len(indices)
AddToRows(st, indices, cantidad) ==
    [i \in DOMAIN st |->
        IF i \in indices
        THEN [st[i] EXCEPT !.Existencia = @ + (cantidad * Den) \div Cardinality(indices)]
        ELSE st[i]]

IsBodega(bodega, tienda) == bodega # <<>> /\ tienda = bodega[1]

\* faulty variant: the room is the whole capacity, whatever the destination holds
cap_disponible_sin_stock(st, tienda, sku) == MAX_STOCK_PER_SKU

\* cap_disponible = max(0, MAX_STOCK_PER_SKU - stock of the destination)
cap_disponible(st, tienda, sku) == Max2(0, MAX_STOCK_PER_SKU - get_stock(st, tienda, sku))

----------------------------------------------------------------------------
\* TrasladosEngineCore (traslados/engine_core.py)

\* faulty variant: the warehouse keeps the minimum of a physical store
AssignMinObjetivo_sin_bodega(st, bodega) ==
    [i \in DOMAIN st |->
        [f \in DOMAIN st[i] \cup {"MinObjetivo"} |->
            IF f = "MinObjetivo"
            THEN IF st[i].IsEcom THEN MIN_POR_SKU_ECOM ELSE MIN_POR_SKU_TIENDA
            ELSE st[i][f]]]

\* __init__: MinObjetivo by store type, 0 for the warehouse
AssignMinObjetivo(st, bodega) ==
    [i \in DOMAIN st |->
        [f \in DOMAIN st[i] \cup {"MinObjetivo"} |->
            IF f = "MinObjetivo"
            THEN IF IsBodega(bodega, st[i].Tienda) THEN 0
                 ELSE IF st[i].IsEcom THEN MIN_POR_SKU_ECOM ELSE MIN_POR_SKU_TIENDA
            ELSE st[i][f]]]

\* the first row of a key: stock_df.loc[indices[0]]
FirstRow(st, tienda, sku) == st[SetMin(idx_tienda_sku(st, tienda, sku))]

\* get_cobertura: <<>> is np.inf, <<n, d>> is the quotient n / d  (stock / ADU)
get_cobertura(st, tienda, sku) ==
    IF idx_tienda_sku(st, tienda, sku) = {} THEN <<>>
    ELSE LET adu == FirstRow(st, tienda, sku).ADU
         IN  IF adu > 0 THEN <<get_stock(st, tienda, sku) * ADU_SCALE, adu>> ELSE <<>>

\* guardar of allowed_to_send: what a store that is not the warehouse keeps
Guardar(row) ==
    LET min_cov_days == IF row.IsEcom THEN ORIGIN_MIN_COV_ECOM ELSE ORIGIN_MIN_COV_DAYS
    IN  IF row.ADU > 0
        THEN Max2(row.MinObjetivo, CeilDiv(min_cov_days * row.ADU, ADU_SCALE))
        ELSE row.MinObjetivo

\* faulty variant: a store may send all it holds, nothing is kept
allowed_to_send_sin_guardar(st, bodega, tienda, sku) ==
    IF idx_tienda_sku(st, tienda, sku) = {} THEN 0 ELSE get_stock(st, tienda, sku)

allowed_to_send(st, bodega, tienda, sku) ==
    IF idx_tienda_sku(st, tienda, sku) = {} THEN 0
    ELSE LET stock_actual == get_stock(st, tienda, sku)
         IN  IF IsBodega(bodega, tienda) THEN stock_actual
             ELSE Max2(0, stock_actual - Guardar(FirstRow(st, tienda, sku)))

\* faulty variant: the target is not capped at MAX_STOCK_PER_SKU
calculate_target_units_sin_tope(st, tienda, sku) ==
    IF idx_tienda_sku(st, tienda, sku) = {} THEN MIN_POR_SKU_TIENDA
    ELSE LET row == FirstRow(st, tienda, sku)
             target_cov_days == IF row.IsEcom THEN DEST_TARGET_COV_ECOM
                                ELSE DEST_TARGET_COV_DAYS
         IN  IF row.ADU > 0
             THEN Max2(row.MinObjetivo, CeilDiv(target_cov_days * row.ADU, ADU_SCALE))
             ELSE row.MinObjetivo

calculate_target_units(st, tienda, sku) ==
    IF idx_tienda_sku(st, tienda, sku) = {} THEN MIN_POR_SKU_TIENDA
    ELSE LET row == FirstRow(st, tienda, sku)
             target_cov_days == IF row.IsEcom THEN DEST_TARGET_COV_ECOM
                                ELSE DEST_TARGET_COV_DAYS
             target == IF row.ADU > 0
                       THEN Max2(row.MinObjetivo,
                                 CeilDiv(target_cov_days * row.ADU, ADU_SCALE))
                       ELSE row.MinObjetivo
         IN  Min2(target, MAX_STOCK_PER_SKU)

\* identify_base_needs: row by row, Existencia < MinObjetivo, not the warehouse,
\* Necesita = min(MinObjetivo - Existencia, MAX - Existencia) clipped at 0, > 0,
\* sorted by ADU descending
NeedOfRow(row) ==
    LET necesita == TruncDiv(row.MinObjetivo * Den - row.Existencia, Den)
        capMax == MAX_STOCK_PER_SKU * Den - row.Existencia
    IN  TruncDiv(Max2(0, Min2(necesita * Den, capMax)), Den)

\* faulty variant: the shortfalls are sorted by ADU ascending
identify_base_needs_ascendente(st, bodega) ==
    LET mask == {i \in DOMAIN st :
                    /\ st[i].Existencia < st[i].MinObjetivo * Den
                    /\ ~IsBodega(bodega, st[i].Tienda)
                    /\ NeedOfRow(st[i]) > 0}
        rows == SetToSeq(mask)
    IN  SortByKey([j \in DOMAIN rows |->
            [Tienda |-> st[rows[j]].Tienda, SKU |-> st[rows[j]].SKU,
             Referencia |-> st[rows[j]].Referencia, Talla |-> st[rows[j]].Talla,
             Necesita |-> NeedOfRow(st[rows[j]]), IsEcom |-> st[rows[j]].IsEcom,
             ADU |-> st[rows[j]].ADU, k |-> <<st[rows[j]].ADU>>]])

identify_base_needs(st, bodega) ==
    LET mask == {i \in DOMAIN st :
                    /\ st[i].Existencia < st[i].MinObjetivo * Den
                    /\ ~IsBodega(bodega, st[i].Tienda)
                    /\ NeedOfRow(st[i]) > 0}
        rows == SetToSeq(mask)
    IN  SortByKey([j \in DOMAIN rows |->
            [Tienda |-> st[rows[j]].Tienda, SKU |-> st[rows[j]].SKU,
             Referencia |-> st[rows[j]].Referencia, Talla |-> st[rows[j]].Talla,
             Necesita |-> NeedOfRow(st[rows[j]]), IsEcom |-> st[rows[j]].IsEcom,
             ADU |-> st[rows[j]].ADU, k |-> <<-st[rows[j]].ADU>>]])

\* _check_same_region: RegionID of the first row of each store, else Region
RegionInfo(st, tienda) ==
    LET rows == {i \in DOMAIN st : st[i].Tienda = tienda}
    IN  IF rows = {} THEN << <<>>, <<>> >>
        ELSE <<st[SetMin(rows)].RegionID, st[SetMin(rows)].Region>>

check_same_region(st, tienda_a, tienda_b) ==
    LET a == RegionInfo(st, tienda_a)
        b == RegionInfo(st, tienda_b)
    IN  IF a[1] # <<>> /\ b[1] # <<>> THEN a[1] = b[1]
        ELSE IF a[2] # <<>> /\ b[2] # <<>> THEN a[2] = b[2]
        ELSE FALSE

\* _get_delivery_priority / _get_delivery_days: the first matching row, else NaN
TiemposMatch(tiempos, origen, destino) ==
    {r \in tiempos : r._O = origen /\ r._D = destino}

get_delivery_priority(tiempos, origen, destino) ==
    LET m == TiemposMatch(tiempos, origen, destino)
    IN  IF m = {} THEN <<>> ELSE (CHOOSE r \in m : TRUE)._PRI_NUM

get_delivery_days(tiempos, origen, destino) ==
    LET m == TiemposMatch(tiempos, origen, destino)
    IN  IF m = {} THEN <<>> ELSE (CHOOSE r \in m : TRUE)._ETA_NUM

\* the coverage filter of rank_origins_for_sku: both finite and
\* cov_origen <= cov_destino + COV_BUFFER_DAYS
CovFiltered(cov_origen, cov_destino) ==
    /\ cov_origen # <<>>
    /\ cov_destino # <<>>
    /\ cov_origen[1] * cov_destino[2]
          <= cov_destino[1] * cov_origen[2]
             + COV_BUFFER_DAYS * cov_origen[2] * cov_destino[2]

\* candidates of rank_origins_for_sku, in the order of idx_tienda_sku
Candidates(st, bodega, sku, dest_tienda) ==
    LET firsts == {i \in DOMAIN st :
                      /\ st[i].SKU = sku
                      /\ i = SetMin(idx_tienda_sku(st, st[i].Tienda, sku))
                      /\ st[i].Tienda # dest_tienda
                      /\ allowed_to_send(st, bodega, st[i].Tienda, sku) > 0
                      /\ ~CovFiltered(get_cobertura(st, st[i].Tienda, sku),
                                      get_cobertura(st, dest_tienda, sku))}
        rows == SetToSeq(firsts)
    IN  [j \in DOMAIN rows |-> st[rows[j]].Tienda]

RECURSIVE LcmOfDens(_, _, _)
LcmOfDens(st, sku, cands) ==
    IF cands = <<>> THEN 1
    ELSE LET c == get_cobertura(st, cands[1], sku)
             rest == LcmOfDens(st, sku, Tail(cands))
         IN  IF c = <<>> THEN rest ELSE (rest * c[2]) \div Gcd(rest, c[2])

\* the key (region_rank, priority_rank, cov_rank, time_rank) of one origin.  The
\* rational cov_rank = -cov takes two integer places: minus the whole days, then
\* minus the fraction of a day in units of 1 / L (L a common denominator)
RankKey(st, tiempos, sku, dest_tienda, origen, L) ==
    LET priority == get_delivery_priority(tiempos, origen, dest_tienda)
        lead_time == get_delivery_days(tiempos, origen, dest_tienda)
        cov == get_cobertura(st, origen, sku)
    IN  << IF check_same_region(st, origen, dest_tienda) THEN 0 ELSE 1,
           IF priority # <<>> THEN TruncDiv(priority[1], PRI_DEN) ELSE RANK_UNKNOWN,
           IF cov # <<>> THEN -(cov[1] \div cov[2]) ELSE -COV_INF_RANK,
           IF cov # <<>> THEN -((cov[1] % cov[2]) * (L \div cov[2])) ELSE 0,
           IF lead_time # <<>> THEN lead_time[1] ELSE RANK_UNKNOWN >>

\* faulty variant: the sorted list is returned as it is
ForceBodegaFirst_omitido(origins_sorted, bodega) == origins_sorted

\* "Forzar bodega principal al inicio si está disponible"
ForceBodegaFirst(origins_sorted, bodega) ==
    IF bodega # <<>> /\ \E j \in DOMAIN origins_sorted : origins_sorted[j] = bodega[1]
    THEN <<bodega[1]>> \o SelectSeq(origins_sorted, LAMBDA t : t # bodega[1])
    ELSE origins_sorted

rank_origins_for_sku(st, bodega, tiempos, sku, dest_tienda) ==
    LET candidates == Candidates(st, bodega, sku, dest_tienda)
        L == LcmOfDens(st, sku, candidates)
        ranked == SortByKey([j \in DOMAIN candidates |->
                     [origen |-> candidates[j],
                      k |-> RankKey(st, tiempos, sku, dest_tienda, candidates[j], L)]])
    IN  ForceBodegaFirst([j \in DOMAIN ranked |-> ranked[j].origen], bodega)

\* _create_new_stock_row: metadata from the first row of the store
create_new_stock_row(st, adu, tienda, sku, referencia, talla, cantidad) ==
    LET rows == {i \in DOMAIN st : st[i].Tienda = tienda}
        is_ecom == IF rows # {} THEN st[SetMin(rows)].IsEcom ELSE tienda = ECOMMERCE
    IN  [Tienda |-> tienda, SKU |-> sku, Referencia |-> referencia, Talla |-> talla,
         Existencia |-> cantidad * Den, IsEcom |-> is_ecom,
         Region |-> IF rows # {} THEN st[SetMin(rows)].Region ELSE <<>>,
         RegionID |-> IF rows # {} THEN st[SetMin(rows)].RegionID ELSE <<>>,
         ADU |-> AduOf(adu, tienda, sku),
         MinObjetivo |-> IF is_ecom THEN MIN_POR_SKU_ECOM ELSE MIN_POR_SKU_TIENDA]

\* faulty variant: the units are taken from the destination's stock with the
\* operands swapped
TransferRecord_signo(before, after, origen, destino, sku, cantidad, referencia, talla) ==
    [origen |-> origen, destino |-> destino,
     origen_antes |-> get_stock(before, origen, sku),
     origen_despues |-> get_stock(after, origen, sku),
     destino_antes |-> get_stock(before, destino, sku),
     destino_despues |-> get_stock(after, destino, sku),
     unidades |-> get_stock(before, destino, sku) - get_stock(after, destino, sku),
     Referencia |-> referencia, Talla |-> talla]

\* the record appended to self.transfers
TransferRecord(before, after, origen, destino, sku, cantidad, referencia, talla) ==
    [origen |-> origen, destino |-> destino,
     origen_antes |-> get_stock(before, origen, sku),
     origen_despues |-> get_stock(after, origen, sku),
     destino_antes |-> get_stock(before, destino, sku),
     destino_despues |-> get_stock(after, destino, sku),
     unidades |-> cantidad, Referencia |-> referencia, Talla |-> talla]

\* faulty variant: the destination is not credited
AddToDestino_sin_abono(st, newRow, destino, sku, cantidad) == st

\* the rows of the destination after a transfer: incremented, or a new row
AddToDestino(st, newRow, destino, sku, cantidad) ==
    IF idx_tienda_sku(st, destino, sku) # {}
    THEN AddToRows(st, idx_tienda_sku(st, destino, sku), cantidad)
    ELSE Append(st, newRow)

\* TrasladosEngineCore.execute_transfer: [ok, stock]
engine_execute_transfer(st, adu, noSeed, allowAdu, origen, destino, sku, cantidad, referencia, talla) ==
    IF /\ idx_tienda_sku(st, destino, sku) = {}
       /\ ~can_seed_to_store(st, adu, noSeed, allowAdu, destino, referencia, sku)
    THEN [ok |-> FALSE, stock |-> st]
    ELSE LET afterOrigen == AddToRows(st, idx_tienda_sku(st, origen, sku), -cantidad)
         IN  [ok |-> TRUE,
              stock |-> AddToDestino(afterOrigen,
                            create_new_stock_row(st, adu, destino, sku, referencia,
                                                 talla, cantidad),
                            destino, sku, cantidad)]
----------------------------------------------------------------------------
\* Facts about an executed transfer, taken on the stock right before it

NoLast == [fase |-> 0]

NoServida == [tienda |-> ""]

LastOf(fase, before, after, adu, noSeed, allowAdu, bodega, origen, destino, sku, cantidad, referencia) ==
    [fase |-> fase, origen |-> origen, destino |-> destino, sku |-> sku,
     referencia |-> referencia, cantidad |-> cantidad,
     \* the destination held a positive row of the reference
     hadRef |-> has_ref_now(before, destino, referencia),
     \* the seeding gate on the stock before the transfer
     gate |-> can_seed_to_store(before, adu, noSeed, allowAdu, destino, referencia, sku),
     \* what the origin has to keep (0 for the warehouse)
     guardar |-> IF IsBodega(bodega, origen)
                    \/ idx_tienda_sku(before, origen, sku) = {}
                    \/ "MinObjetivo" \notin DOMAIN FirstRow(before, origen, sku)
                 THEN 0
                 ELSE Guardar(FirstRow(before, origen, sku)),
     origen_es_bodega |-> IsBodega(bodega, origen),
     origen_antes |-> get_stock(before, origen, sku),
     origen_despues |-> get_stock(after, origen, sku),
     destino_antes |-> get_stock(before, destino, sku),
     destino_despues |-> get_stock(after, destino, sku)]

----------------------------------------------------------------------------
\* Inputs: the cleaned stock and sales tables and the run parameters

StockRow(t, ref, talla, q) ==
    [Tienda |-> t, SKU |-> build_sku(ref, talla), Referencia |-> ref, Talla |-> talla,
     Existencia |-> q * Den, IsEcom |-> IsEcomOf(t),
     Region |-> RegionOf(t), RegionID |-> RegionIDOf(t)]

\* the rows of one (Tienda, SKU) key, from a sequence of quantities
KeyRows(t, ref, talla, qs) == [j \in DOMAIN qs |-> StockRow(t, ref, talla, qs[j])]

\* a key of k physical rows with unequal quantities: 6 - (k - 1), 1, ..., 1
UnequalRows(k) == [j \in 1..k |-> IF j = 1 THEN 5 - (k - 2) ELSE 1]

BodegaXQtys == {<<>>, <<2>>, <<100>>} \cup {UnequalRows(k) : k \in 2..MaxRowsPerKey}
BodegaYQtys == {<<>>, <<4>>}
ChipiXQtys == {<<>>, <<0>>, <<2>>, <<1, 1>>, <<1, 2>>, <<9>>}
ChipiYQtys == {<<>>, <<0>>, <<3>>}
EcomXQtys == {<<>>, <<1>>, <<9>>}

\* units sold in the period, per key (0: the key has no sales rows)
ChipiXVentas == {0, 30}
EcomXVentas == {0, 30}
BodegaXVentas == {0, 30}

VentasOf(cx, ex, bx) ==
    LET keys == (IF cx > 0 THEN {<<CHIPICHAPE, SKU_X>>} ELSE {})
                \cup (IF ex > 0 THEN {<<ECOMMERCE, SKU_X>>} ELSE {})
                \cup (IF bx > 0 THEN {<<BODEGA, SKU_X>>} ELSE {})
    IN  [key \in keys |-> IF key[1] = CHIPICHAPE THEN cx
                          ELSE IF key[1] = ECOMMERCE THEN ex ELSE bx]

\* a sales table without a date column, one row per key that has sales
RECURSIVE FilasDe(_, _)
FilasDe(ventas, keys) ==
    IF keys = {} THEN <<>>
    ELSE LET key == CHOOSE k \in keys : TRUE
         IN  <<[Tienda |-> key[1], SKU |-> key[2], Unidades |-> <<ventas[key]>>, Fecha |-> <<>>]>>
             \o FilasDe(ventas, keys \ {key})

TablaSinFecha(ventas) == [con_fecha |-> FALSE, filas |-> FilasDe(ventas, DOMAIN ventas)]

\* a sales table with a date column: one row of a key on each of dias days, the
\* units sold on the first day and none on the others
TablaConFechas(tienda, sku, unidades, dias) ==
    [con_fecha |-> TRUE,
     filas |-> [d \in 1..dias |-> [Tienda |-> tienda, SKU |-> sku,
                                   Unidades |-> <<IF d = 1 THEN unidades ELSE 0>>,
                                   Fecha |-> <<d>>]]]

\* one unit in 20 days: an ADU of 0.05
VentasUmbral == TablaConFechas(CHIPICHAPE, SKU_X, 1, 20)

VentasTablas ==
    {TablaSinFecha(VentasOf(vcx, vex, vbx)) :
        vcx \in ChipiXVentas, vex \in EcomXVentas, vbx \in BodegaXVentas}
    \cup {VentasUmbral}

\* _detect_bodega_principal: the store with the largest stock among those whose
\* name contains BODEGA, CEDI or PRINCIPAL; None when there is none
NameMatchesBodega(t) == t = BODEGA

detect_bodega_principal(st) ==
    LET candidatos == {st[i].Tienda : i \in {j \in DOMAIN st : NameMatchesBodega(st[j].Tienda)}}
        total(t) == SumExistencia(st, {i \in DOMAIN st : st[i].Tienda = t})
    IN  IF candidatos = {} THEN <<>>
        ELSE <<CHOOSE t \in candidatos :
                 \A u \in candidatos :
                    total(t) > total(u) \/ (total(t) = total(u) /\ NameRank(t) <= NameRank(u))>>

NoCur == [fase |-> 0]

\* app/main.py: execution_state as the module creates it, and a server that has
\* received nothing
EstadoInicial == [running |-> FALSE, progress |-> 0, error |-> <<>>]
ServidorInicial == [buzon |-> <<>>, tareas |-> 0, en_curso |-> 0, llegadas |-> 0, respuestas |-> <<>>]

\* the units of a sequence of row quantities
RECURSIVE SumUnits(_)
SumUnits(qs) == IF qs = <<>> THEN 0 ELSE Head(qs) + SumUnits(Tail(qs))

\* the state after construction on given tables and seeding policy
InitDe(bx, by, cx, cy, ex, ventas, ns, al) ==
    LET df_stock == KeyRows(BODEGA, REF1, T0M, bx) \o KeyRows(BODEGA, REF1, T3M, by)
                    \o KeyRows(CHIPICHAPE, REF1, T0M, cx)
                    \o KeyRows(CHIPICHAPE, REF1, T3M, cy)
                    \o KeyRows(ECOMMERCE, REF1, T0M, ex)
        adu == calculate_adu(ventas)
    IN  \* the warehouse has sales of its own only when it holds few units,
        \* which keeps the cross products of the coverage comparisons small
        /\ (AduOf(adu, BODEGA, SKU_X) > 0 => SumUnits(bx) <= MAX_STOCK_PER_SKU)
        /\ stock_inicial = enrich_stock_with_adu(df_stock, adu)
        /\ stock = enrich_stock_with_adu(df_stock, adu)
        /\ df_ventas = ventas
        /\ adu_map = adu
        /\ tiempos_df = {}
        /\ bodega_principal = detect_bodega_principal(df_stock)
        /\ no_seed = ns
        /\ allow_seed_if_adu = al
        /\ pc = "start"
        /\ needs = <<>>
        /\ cur = NoCur
        /\ transfers = <<>>
        /\ traslados_fase1 = <<>>
        /\ traslados_fase2 = <<>>
        /\ traslados_fase3 = <<>>
        /\ opts = [enable_curvas |-> <<>>, enable_drenaje |-> <<>>, safety_ratio |-> <<>>]
        /\ total0 = TotalExistencia(df_stock)
        /\ last = NoLast
        /\ ejecutados = <<>>
        /\ servida = NoServida
        /\ llamada = 1
        /\ execution_state = EstadoInicial
        /\ servidor = ServidorInicial
        /\ df_traslados = <<>>

Init ==
    \E bx \in BodegaXQtys, by \in BodegaYQtys, cx \in ChipiXQtys, cy \in ChipiYQtys,
       ex \in EcomXQtys, ventas \in VentasTablas, ns \in BOOLEAN, al \in BOOLEAN :
        InitDe(bx, by, cx, cy, ex, ventas, ns, al)

inputs == <<stock_inicial, df_ventas, adu_map, tiempos_df, bodega_principal, no_seed, allow_seed_if_adu, total0, llamada, execution_state, servidor>>

----------------------------------------------------------------------------
\* Phase 1: run_fase1_necesidades_base

\* the engine is built and identify_base_needs is called
Fase1Start ==
    /\ pc = "start"
    /\ stock' = AssignMinObjetivo(stock, bodega_principal)
    /\ needs' = identify_base_needs(stock', bodega_principal)
    /\ transfers' = <<>>
    /\ pc' = "f1_need"
    /\ UNCHANGED <<inputs, df_traslados, cur, traslados_fase1, traslados_fase2, traslados_fase3,
                   opts, last, ejecutados>>
    /\ UNCHANGED servida

\* the units a list of origins may send of a SKU, summed
RECURSIVE SumDisponible(_, _, _, _)
SumDisponible(st, bodega, origins, sku) ==
    IF origins = <<>> THEN 0
    ELSE Max2(0, allowed_to_send(st, bodega, Head(origins), sku))
         + SumDisponible(st, bodega, Tail(origins), sku)

\* process_base_needs, one shortfall: the seeding check, the target, the ranking
\* and the gap; the shortfall is dropped when it is blocked, has no origin or no gap
NeedBegin ==
    /\ pc = "f1_need"
    /\ needs # <<>>
    /\ LET need == Head(needs)
           blocked == /\ idx_tienda_sku(stock, need.Tienda, need.SKU) = {}
                      /\ ~can_seed_to_store(stock, adu_map, no_seed, allow_seed_if_adu,
                                            need.Tienda, need.Referencia, need.SKU)
           target == calculate_target_units(stock, need.Tienda, need.SKU)
           origins == rank_origins_for_sku(stock, bodega_principal, tiempos_df,
                                           need.SKU, need.Tienda)
           gap == Max2(0, target - get_stock(stock, need.Tienda, need.SKU))
       IN  /\ needs' = Tail(needs)
           /\ IF blocked \/ origins = <<>> \/ gap <= 0
              THEN /\ cur' = NoCur
                   /\ pc' = "f1_need"
              ELSE /\ cur' = [fase |-> 1, tienda |-> need.Tienda, sku |-> need.SKU,
                              ref |-> need.Referencia, talla |-> need.Talla,
                              origins |-> origins, gap |-> gap, movido_total |-> 0]
                   /\ pc' = "f1_origin"
           /\ servida' = [tienda |-> need.Tienda, sku |-> need.SKU, bloqueada |-> blocked,
                          target |-> target,
                          antes |-> get_stock(stock, need.Tienda, need.SKU),
                          S |-> SumDisponible(stock, bodega_principal, origins, need.SKU),
                          despues |-> IF blocked \/ origins = <<>> \/ gap <= 0
                                      THEN <<get_stock(stock, need.Tienda, need.SKU)>>
                                      ELSE <<>>]
    /\ UNCHANGED <<inputs, df_traslados, stock, transfers, traslados_fase1, traslados_fase2,
                   traslados_fase3, opts, last, ejecutados>>

\* process_base_needs, one origin of the ranked list
NeedOrigin ==
    /\ pc = "f1_origin"
    /\ LET origen == Head(cur.origins)
           disponible == allowed_to_send(stock, bodega_principal, origen, cur.sku)
           cap == cap_disponible(stock, cur.tienda, cur.sku)
           qty == Min2(disponible, Min2(cur.gap, cap))
           res == engine_execute_transfer(stock, adu_map, no_seed, allow_seed_if_adu,
                                          origen, cur.tienda, cur.sku, qty, cur.ref,
                                          cur.talla)
           moved == disponible > 0 /\ qty > 0 /\ res.ok
           gap == IF moved THEN cur.gap - qty ELSE cur.gap
       IN  /\ IF moved
              THEN /\ stock' = res.stock
                   /\ transfers' = Append(transfers,
                          TransferRecord(stock, res.stock, origen, cur.tienda, cur.sku,
                                         qty, cur.ref, cur.talla))
                   /\ ejecutados' = Append(ejecutados,
                          [fase |-> 1, traslado |->
                          TransferRecord(stock, res.stock, origen, cur.tienda, cur.sku,
                                         qty, cur.ref, cur.talla)])
                   /\ last' = LastOf(1, stock, res.stock, adu_map, no_seed,
                                     allow_seed_if_adu, bodega_principal, origen,
                                     cur.tienda, cur.sku, qty, cur.ref)
              ELSE UNCHANGED <<stock, transfers, last, ejecutados>>
           /\ IF Tail(cur.origins) = <<>> \/ gap <= 0
              THEN /\ cur' = NoCur
                   /\ pc' = "f1_need"
                   /\ servida' = [servida EXCEPT
                                     !.despues = <<get_stock(stock', cur.tienda, cur.sku)>>]
              ELSE /\ cur' = [cur EXCEPT !.origins = Tail(cur.origins), !.gap = gap,
                                         !.movido_total = IF moved THEN @ + qty ELSE @]
                   /\ pc' = "f1_origin"
                   /\ UNCHANGED servida
    /\ UNCHANGED <<inputs, df_traslados, needs, traslados_fase1, traslados_fase2, traslados_fase3, opts>>

\* run_fase1_necesidades_base returns: df_stock and traslados_fase1 are updated
Fase1End ==
    /\ pc = "f1_need"
    /\ needs = <<>>
    /\ traslados_fase1' = transfers
    /\ pc' = "f2"
    /\ UNCHANGED <<inputs, df_traslados, stock, needs, cur, transfers, traslados_fase2,
                   traslados_fase3, opts, last, ejecutados>>
    /\ UNCHANGED servida

----------------------------------------------------------------------------
\* CurveCompleter (traslados/curve_completer.py)

\* ADU_MIN_THRESHOLD = 0.05, as ADU * ADU_SCALE
ADU_MIN_THRESHOLD == 500

\* the stores of the table in order of first appearance: stock_df['Tienda'].unique()
UniqueTiendas(st) ==
    LET firsts == {i \in DOMAIN st : \A j \in 1..(i - 1) : st[j].Tienda # st[i].Tienda}
        rows == SetToSeq(firsts)
    IN  [j \in DOMAIN rows |-> st[rows[j]].Tienda]

\* total ADU of a store over adu_map
AduPerStore(adu, tienda) ==
    SumSet({key \in DOMAIN adu : key[1] = tienda}, adu)

\* prioritize_stores: (cat_rank, -adu_total, tienda), the warehouse excluded
prioritize_stores(st, adu, bodega) ==
    LET stores == SelectSeq(UniqueTiendas(st), LAMBDA t : t # bodega)
        sorted == SortByKey([j \in DOMAIN stores |->
                     [tienda |-> stores[j],
                      k |-> <<CatRank(get_store_category(stores[j])),
                              -AduPerStore(adu, stores[j]), NameRank(stores[j])>>]])
    IN  [j \in DOMAIN sorted |-> sorted[j].tienda]

\* faulty variant: a reference counts as carried on a row without stock
get_refs_in_store_sin_existencia(st, tienda) ==
    LET firsts == {i \in DOMAIN st :
                      /\ st[i].Tienda = tienda
                      /\ \A j \in 1..(i - 1) :
                            ~(st[j].Tienda = tienda /\ st[j].Referencia = st[i].Referencia)}
        rows == SetToSeq(firsts)
    IN  [j \in DOMAIN rows |-> st[rows[j]].Referencia]

\* get_refs_in_store: references with a row of Existencia > 0, first appearance order
get_refs_in_store(st, tienda) ==
    LET firsts == {i \in DOMAIN st :
                      /\ st[i].Tienda = tienda
                      /\ st[i].Existencia > 0
                      /\ \A j \in 1..(i - 1) :
                            ~(st[j].Tienda = tienda /\ st[j].Existencia > 0
                              /\ st[j].Referencia = st[i].Referencia)}
        rows == SetToSeq(firsts)
    IN  [j \in DOMAIN rows |-> st[rows[j]].Referencia]

SeqRange(s) == {s[j] : j \in DOMAIN s}

\* the ADU of a reference at a store, summed over the sizes of both curves
RefAdu(adu, tienda, ref) ==
    SumSet(DOMAIN (CURVA_BEBES \o CURVA_NINOS),
           [j \in DOMAIN (CURVA_BEBES \o CURVA_NINOS) |->
               AduOf(adu, tienda, build_sku(ref, (CURVA_BEBES \o CURVA_NINOS)[j]))])

\* complete_curves: the references of a store by ADU descending
RefsByAdu(st, adu, tienda) ==
    LET refs == get_refs_in_store(st, tienda)
        sorted == SortByKey([j \in DOMAIN refs |->
                     [ref |-> refs[j], k |-> <<-RefAdu(adu, tienda, refs[j])>>]])
    IN  [j \in DOMAIN sorted |-> sorted[j].ref]

\* get_rango_for_ref: "BEBES", "NINOS" or <<>> from the sizes the store has rows of
get_rango_for_ref(st, tienda, ref) ==
    LET tallas_presentes == {st[i].Talla :
                                i \in {j \in DOMAIN st : st[j].Tienda = tienda
                                                         /\ st[j].Referencia = ref}}
    IN  IF tallas_presentes \cap SeqRange(CURVA_BEBES) # {} THEN <<"BEBES">>
        ELSE IF tallas_presentes \cap SeqRange(CURVA_NINOS) # {} THEN <<"NINOS">>
        ELSE <<>>

\* faulty variant: sizes without sales are not filtered out
get_candidate_tallas_sin_umbral(st, adu, tienda, ref, rango) ==
    LET curva == IF rango = "BEBES" THEN CURVA_BEBES ELSE CURVA_NINOS
        keep(talla) == ~(get_stock(st, tienda, build_sku(ref, talla)) >= MIN_POR_SKU_TIENDA)
        candidates == SelectSeq(curva, keep)
        sorted == SortByKey([j \in DOMAIN candidates |->
                     [talla |-> candidates[j],
                      k |-> <<-AduOf(adu, tienda, build_sku(ref, candidates[j]))>>]])
    IN  [j \in DOMAIN sorted |-> sorted[j].talla]

\* get_candidate_tallas: sizes of the curve with ADU >= threshold and stock below
\* MIN_POR_SKU_TIENDA, by ADU descending
get_candidate_tallas(st, adu, tienda, ref, rango) ==
    LET curva == IF rango = "BEBES" THEN CURVA_BEBES ELSE CURVA_NINOS
        keep(talla) == /\ ~(AduOf(adu, tienda, build_sku(ref, talla)) < ADU_MIN_THRESHOLD)
                       /\ ~(get_stock(st, tienda, build_sku(ref, talla)) >= MIN_POR_SKU_TIENDA)
        candidates == SelectSeq(curva, keep)
        sorted == SortByKey([j \in DOMAIN candidates |->
                     [talla |-> candidates[j],
                      k |-> <<-AduOf(adu, tienda, build_sku(ref, candidates[j]))>>]])
    IN  [j \in DOMAIN sorted |-> sorted[j].talla]

\* 'ECOM' in tienda.upper()
NameHasEcom(t) == t = ECOMMERCE

\* CurveCompleter._create_stock_row
create_stock_row(adu, tienda, sku, ref, talla, qty) ==
    [Tienda |-> tienda, SKU |-> sku, Referencia |-> ref, Talla |-> talla,
     Existencia |-> qty * Den, IsEcom |-> NameHasEcom(tienda),
     Region |-> <<>>, RegionID |-> <<>>, ADU |-> AduOf(adu, tienda, sku),
     MinObjetivo |-> MIN_POR_SKU_TIENDA]

\* CurveCompleter.execute_transfer: [ok, stock]
completer_execute_transfer(st, adu, origen, destino, sku, cantidad, referencia, talla) ==
    IF idx_tienda_sku(st, origen, sku) = {} \/ get_stock(st, origen, sku) < cantidad
    THEN [ok |-> FALSE, stock |-> st]
    ELSE [ok |-> TRUE,
          stock |-> AddToDestino(AddToRows(st, idx_tienda_sku(st, origen, sku), -cantidad),
                                 create_stock_row(adu, destino, sku, referencia, talla,
                                                  cantidad),
                                 destino, sku, cantidad)]

\* faulty variant: the skipped phase reports the transfers of the last component
\* that ran
Fase2Skip_lista_anterior ==
    /\ pc = "f2"
    /\ \E enable_curvas \in BOOLEAN :
        /\ ~(enable_curvas /\ bodega_principal # <<>>)
        /\ opts' = [opts EXCEPT !.enable_curvas = <<enable_curvas>>]
    /\ traslados_fase2' = transfers
    /\ pc' = "f3"
    /\ UNCHANGED <<inputs, df_traslados, stock, needs, cur, transfers, traslados_fase1,
                   traslados_fase3, last, ejecutados>>
    /\ UNCHANGED servida

\* run_all: phase 2 is disabled, or there is no warehouse
Fase2Skip ==
    /\ pc = "f2"
    /\ \E enable_curvas \in BOOLEAN :
        /\ ~(enable_curvas /\ bodega_principal # <<>>)
        /\ opts' = [opts EXCEPT !.enable_curvas = <<enable_curvas>>]
    /\ pc' = "f3"
    /\ UNCHANGED <<inputs, df_traslados, stock, needs, cur, transfers, traslados_fase1,
                   traslados_fase2, traslados_fase3, last, ejecutados>>
    /\ UNCHANGED servida

\* run_fase2_completar_curvas: the completer is built; complete_curves returns at
\* once when the warehouse is empty, else the stores are prioritized
Fase2Start ==
    /\ pc = "f2"
    /\ bodega_principal # <<>>
    /\ opts' = [opts EXCEPT !.enable_curvas = <<TRUE>>]
    /\ transfers' = <<>>
    /\ IF get_bodega_total(stock, bodega_principal[1]) <= 0
       THEN /\ traslados_fase2' = <<>>
            /\ cur' = NoCur
            /\ pc' = "f3"
       ELSE /\ traslados_fase2' = traslados_fase2
            /\ cur' = [fase |-> 2,
                       stores |-> prioritize_stores(stock, adu_map, bodega_principal[1]),
                       tienda |-> "", refs |-> <<>>, ref |-> <<>>, tallas |-> <<>>]
            /\ pc' = "f2_loop"
    /\ UNCHANGED <<inputs, df_traslados, stock, needs, traslados_fase1, traslados_fase3, last, ejecutados>>
    /\ UNCHANGED servida

\* the loops of complete_curves are over: no store is left, or the warehouse is empty
\* when the next store is taken
Fase2End ==
    /\ pc = "f2_loop"
    /\ cur.tallas = <<>> /\ cur.refs = <<>>
    /\ cur.stores = <<>> \/ get_bodega_total(stock, bodega_principal[1]) <= 0
    /\ traslados_fase2' = transfers
    /\ cur' = NoCur
    /\ pc' = "f3"
    /\ UNCHANGED <<inputs, df_traslados, stock, needs, transfers, traslados_fase1, traslados_fase3,
                   opts, last, ejecutados>>
    /\ UNCHANGED servida

\* for tienda in stores: the references the store carries, by ADU
CurvaStore ==
    /\ pc = "f2_loop"
    /\ cur.tallas = <<>> /\ cur.refs = <<>>
    /\ cur.stores # <<>>
    /\ get_bodega_total(stock, bodega_principal[1]) > 0
    /\ cur' = [cur EXCEPT !.stores = Tail(cur.stores), !.tienda = Head(cur.stores),
                          !.refs = RefsByAdu(stock, adu_map, Head(cur.stores))]
    /\ UNCHANGED <<inputs, df_traslados, stock, pc, needs, transfers, traslados_fase1,
                   traslados_fase2, traslados_fase3, opts, last, ejecutados>>
    /\ UNCHANGED servida

\* for ref in refs: the curve of the reference and its candidate sizes
CurvaRef ==
    /\ pc = "f2_loop"
    /\ cur.tallas = <<>>
    /\ cur.refs # <<>>
    /\ LET ref == Head(cur.refs)
           rango == get_rango_for_ref(stock, cur.tienda, ref)
       IN  IF get_bodega_total(stock, bodega_principal[1]) <= 0
           THEN cur' = [cur EXCEPT !.refs = <<>>]
           ELSE cur' = [cur EXCEPT !.refs = Tail(cur.refs), !.ref = ref,
                           !.tallas = IF rango = <<>> THEN <<>>
                                      ELSE get_candidate_tallas(stock, adu_map, cur.tienda,
                                                                ref, rango[1])]
    /\ UNCHANGED <<inputs, df_traslados, stock, pc, needs, transfers, traslados_fase1,
                   traslados_fase2, traslados_fase3, opts, last, ejecutados>>
    /\ UNCHANGED servida

\* for talla in tallas: min(need, capacity, warehouse stock) from the warehouse
CurvaTalla ==
    /\ pc = "f2_loop"
    /\ cur.tallas # <<>>
    /\ LET talla == Head(cur.tallas)
           bodega == bodega_principal[1]
           sku == build_sku(cur.ref, talla)
           stock_actual == get_stock(stock, cur.tienda, sku)
           necesita == Min2(MIN_POR_SKU_TIENDA - stock_actual,
                            MAX_STOCK_PER_SKU - stock_actual)
           bodega_stock == get_stock(stock, bodega, sku)
           qty == Min2(necesita, bodega_stock)
           res == completer_execute_transfer(stock, adu_map, bodega, cur.tienda, sku,
                                             qty, cur.ref, talla)
           agotada == get_bodega_total(stock, bodega) <= 0
           moved == ~agotada /\ necesita > 0 /\ bodega_stock > 0 /\ qty > 0 /\ res.ok
       IN  /\ IF moved
              THEN /\ stock' = res.stock
                   /\ transfers' = Append(transfers,
                          TransferRecord(stock, res.stock, bodega, cur.tienda, sku, qty,
                                         cur.ref, talla))
                   /\ ejecutados' = Append(ejecutados,
                          [fase |-> 2, traslado |->
                          TransferRecord(stock, res.stock, bodega, cur.tienda, sku, qty,
                                         cur.ref, talla)])
                   /\ last' = LastOf(2, stock, res.stock, adu_map, no_seed,
                                     allow_seed_if_adu, bodega_principal, bodega,
                                     cur.tienda, sku, qty, cur.ref)
              ELSE UNCHANGED <<stock, transfers, last, ejecutados>>
           /\ cur' = [cur EXCEPT !.tallas = IF agotada THEN <<>> ELSE Tail(cur.tallas)]
    /\ UNCHANGED <<inputs, df_traslados, pc, needs, traslados_fase1, traslados_fase2,
                   traslados_fase3, opts>>
    /\ UNCHANGED servida

----------------------------------------------------------------------------
\* BodegaDrainer (traslados/bodega_drainer.py)

\* the safety ratios a run may be given, in thousandths
SafetyRatios == {0, 200, 900, 995}

\* 1.0 - safety_ratio in binary64, for the clamped ratios of SafetyRatios: the
\* sign of (computed - exact).  1.0 - 0.2 = 0x1.999999999999ap-1 > 0.8,
\* 1.0 - 0.9 = 0x1.9999999999998p-4 < 0.1, 1.0 - 0.99 = 0x1.47ae147ae1480p-7 > 0.01
resta_float_signo(clamped) ==
    CASE clamped = 200 -> 1
      [] clamped = 900 -> -1
      [] clamped = 990 -> 1
      [] OTHER -> 0

\* calculate_drain_limit: the ratio is clamped to [0, 0.99];
\* int(np.floor(total_bodega * (1.0 - safety_ratio))) is one below the exact
\* floor when 1.0 - safety_ratio is rounded down and the exact product is a
\* whole number (the binary64 product then stays below that number)
calculate_drain_limit(st, bodega, safety_ratio) ==
    LET total_bodega == get_bodega_total(st, bodega)
        clamped == Max2(0, Min2(RATIO_MAX, safety_ratio))
        exacto == total_bodega * (RATIO_SCALE - clamped)
    IN  IF safety_ratio <= 0 THEN total_bodega
        ELSE IF /\ resta_float_signo(clamped) < 0
                /\ total_bodega > 0
                /\ exacto % RATIO_SCALE = 0
             THEN exacto \div RATIO_SCALE - 1
             ELSE exacto \div RATIO_SCALE

\* str order of the characters used in a SKU
CharRank(c) ==
    CASE c = "0" -> 0 [] c = "1" -> 1 [] c = "2" -> 2 [] c = "3" -> 3 [] c = "4" -> 4
      [] c = "5" -> 5 [] c = "6" -> 6 [] c = "7" -> 7 [] c = "8" -> 8 [] c = "9" -> 9
      [] c = "M" -> 10 [] c = "T" -> 11 [] OTHER -> 12

\* a SKU as an integer tuple whose LexLess order is the str order: the ranks of
\* its characters plus one, padded with 0 to length n
SkuKey(sku, n) == [j \in 1..n |-> IF j <= Len(sku) THEN CharRank(sku[j]) + 1 ELSE 0]

\* the ADU of a SKU summed over every store of adu_map
AduTotal(adu, sku) == SumSet({key \in DOMAIN adu : key[2] = sku}, adu)

\* get_skus_to_drain: the warehouse rows grouped by SKU (groupby sorts by SKU),
\* then by ADU total descending: (sku, Existencia, ADU_Total)
get_skus_to_drain(st, adu, bodega) ==
    LET skus == {st[i].SKU : i \in {j \in DOMAIN st : st[j].Tienda = bodega}}
        n == 12
        grouped == SortByKey(
            LET RECURSIVE AsSeq(_)
                AsSeq(S) == IF S = {} THEN <<>>
                            ELSE LET x == CHOOSE y \in S : TRUE
                                 IN  <<[sku |-> x, k |-> SkuKey(x, n)]>> \o AsSeq(S \ {x})
            IN  AsSeq(skus))
    IN  SortByKey([j \in DOMAIN grouped |->
            [sku |-> grouped[j].sku,
             disponible |-> TruncDiv(SumExistencia(st, idx_tienda_sku(st, bodega, grouped[j].sku)), Den),
             k |-> <<-AduTotal(adu, grouped[j].sku)>>]])

\* faulty variant: the warehouse is not excluded from the destinations
get_destinations_for_sku_con_bodega(adu, bodega, sku) ==
    LET cands == {key \in DOMAIN adu : key[2] = sku /\ adu[key] > 0}
        RECURSIVE AsSeq(_)
        AsSeq(S) == IF S = {} THEN <<>>
                    ELSE LET x == CHOOSE y \in S : TRUE
                         IN  <<[tienda |-> x[1],
                                k |-> <<CatRank(get_store_category(x[1])), -adu[x],
                                        NameRank(x[1])>>]>> \o AsSeq(S \ {x})
        sorted == SortByKey(AsSeq(cands))
    IN  [j \in DOMAIN sorted |-> sorted[j].tienda]

\* get_destinations_for_sku: stores of adu_map with ADU > 0 for the SKU, the
\* warehouse excluded, by (cat_rank, -adu, tienda)
get_destinations_for_sku(adu, bodega, sku) ==
    LET cands == {key \in DOMAIN adu : key[2] = sku /\ key[1] # bodega /\ adu[key] > 0}
        RECURSIVE AsSeq(_)
        AsSeq(S) == IF S = {} THEN <<>>
                    ELSE LET x == CHOOSE y \in S : TRUE
                         IN  <<[tienda |-> x[1],
                                k |-> <<CatRank(get_store_category(x[1])), -adu[x],
                                        NameRank(x[1])>>]>> \o AsSeq(S \ {x})
        sorted == SortByKey(AsSeq(cands))
    IN  [j \in DOMAIN sorted |-> sorted[j].tienda]

\* the row BodegaDrainer.execute_transfer creates
drainer_new_row(adu, destino, sku, referencia, talla, cantidad) ==
    [Tienda |-> destino, SKU |-> sku, Referencia |-> referencia, Talla |-> talla,
     Existencia |-> cantidad * Den, IsEcom |-> NameHasEcom(destino),
     Region |-> <<>>, RegionID |-> <<>>, ADU |-> AduOf(adu, destino, sku),
     MinObjetivo |-> 2]

\* BodegaDrainer.execute_transfer: [ok, stock]
drainer_execute_transfer(st, adu, origen, destino, sku, cantidad, referencia, talla) ==
    IF idx_tienda_sku(st, origen, sku) = {}
    THEN [ok |-> FALSE, stock |-> st]
    ELSE [ok |-> TRUE,
          stock |-> AddToDestino(AddToRows(st, idx_tienda_sku(st, origen, sku), -cantidad),
                                 drainer_new_row(adu, destino, sku, referencia, talla,
                                                 cantidad),
                                 destino, sku, cantidad)]

\* ref = sku[:7], talla = sku[7:]
SkuRef(sku) == SubSeq(sku, 1, Min2(REF_LEN, Len(sku)))
SkuTalla(sku) == SubSeq(sku, REF_LEN + 1, Len(sku))

\* run_all: phase 3 is disabled, or there is no warehouse
Fase3Skip ==
    /\ pc = "f3"
    /\ \E enable_drenaje \in BOOLEAN :
        /\ ~(enable_drenaje /\ bodega_principal # <<>>)
        /\ opts' = [opts EXCEPT !.enable_drenaje = <<enable_drenaje>>]
    /\ pc' = "out"
    /\ UNCHANGED <<inputs, stock, needs, cur, transfers, traslados_fase1,
                   traslados_fase2, traslados_fase3, last, ejecutados, df_traslados>>
    /\ UNCHANGED servida

\* run_fase3_drenar_bodega: the drainer is built; drain returns at once when the
\* warehouse is empty, else the limit and the SKUs to drain are computed
Fase3Start ==
    /\ pc = "f3"
    /\ bodega_principal # <<>>
    /\ \E safety_ratio \in SafetyRatios :
        /\ opts' = [opts EXCEPT !.enable_drenaje = <<TRUE>>,
                                !.safety_ratio = <<safety_ratio>>]
        /\ IF get_bodega_total(stock, bodega_principal[1]) <= 0
           THEN /\ traslados_fase3' = <<>>
                /\ cur' = NoCur
                /\ pc' = "out"
           ELSE /\ traslados_fase3' = traslados_fase3
                /\ cur' = [fase |-> 3,
                           bodega_inicial |-> get_bodega_total(stock, bodega_principal[1]),
                           max_drain |-> calculate_drain_limit(stock, bodega_principal[1],
                                                               safety_ratio),
                           drained |-> 0,
                           skus |-> get_skus_to_drain(stock, adu_map, bodega_principal[1]),
                           sku |-> <<>>, qty_disponible |-> 0, destinos |-> <<>>]
                /\ pc' = "f3_loop"
    /\ transfers' = <<>>
    /\ UNCHANGED <<inputs, stock, needs, traslados_fase1, traslados_fase2, last, ejecutados,
                   df_traslados>>
    /\ UNCHANGED servida

\* for sku in skus: what may be drained of it and its destinations
DrainSku ==
    /\ pc = "f3_loop"
    /\ cur.destinos = <<>>
    /\ cur.skus # <<>>
    /\ cur.drained < cur.max_drain
    /\ LET item == Head(cur.skus)
           qty_disponible == Min2(item.disponible, cur.max_drain - cur.drained)
       IN  cur' = [cur EXCEPT
                     !.skus = Tail(cur.skus),
                     !.sku = item.sku,
                     !.qty_disponible = qty_disponible,
                     !.destinos = IF Len(item.sku) < REF_LEN \/ qty_disponible <= 0
                                  THEN <<>>
                                  ELSE get_destinations_for_sku(adu_map, bodega_principal[1],
                                                                item.sku)]
    /\ UNCHANGED <<inputs, stock, pc, needs, transfers, traslados_fase1,
                   traslados_fase2, traslados_fase3, opts, last, ejecutados, df_traslados>>
    /\ UNCHANGED servida

\* for tienda in destinos: the seeding gate, the capacity and the transfer
DrainDest ==
    /\ pc = "f3_loop"
    /\ cur.destinos # <<>>
    /\ LET tienda == Head(cur.destinos)
           bodega == bodega_principal[1]
           ref == SkuRef(cur.sku)
           talla == SkuTalla(cur.sku)
           stop == cur.qty_disponible <= 0 \/ cur.drained >= cur.max_drain
           cap == cap_disponible(stock, tienda, cur.sku)
           qty == Min2(cap, Min2(cur.qty_disponible, cur.max_drain - cur.drained))
           res == drainer_execute_transfer(stock, adu_map, bodega, tienda, cur.sku, qty,
                                           ref, talla)
           moved == /\ ~stop
                    /\ can_seed_to_store(stock, adu_map, no_seed, allow_seed_if_adu,
                                         tienda, ref, cur.sku)
                    /\ cap > 0 /\ qty > 0 /\ res.ok
       IN  /\ IF moved
              THEN /\ stock' = res.stock
                   /\ transfers' = Append(transfers,
                          TransferRecord(stock, res.stock, bodega, tienda, cur.sku, qty,
                                         ref, talla))
                   /\ ejecutados' = Append(ejecutados,
                          [fase |-> 3, traslado |->
                          TransferRecord(stock, res.stock, bodega, tienda, cur.sku, qty,
                                         ref, talla)])
                   /\ last' = LastOf(3, stock, res.stock, adu_map, no_seed,
                                     allow_seed_if_adu, bodega_principal, bodega, tienda,
                                     cur.sku, qty, ref)
              ELSE UNCHANGED <<stock, transfers, last, ejecutados>>
           /\ cur' = [cur EXCEPT
                        !.destinos = IF stop THEN <<>> ELSE Tail(cur.destinos),
                        !.drained = IF moved THEN @ + qty ELSE @,
                        !.qty_disponible = IF moved THEN @ - qty ELSE @]
    /\ UNCHANGED <<inputs, pc, needs, traslados_fase1, traslados_fase2,
                   traslados_fase3, opts, df_traslados>>
    /\ UNCHANGED servida

\* the loop of drain is over: no SKU is left or the limit is reached
Fase3End ==
    /\ pc = "f3_loop"
    /\ cur.destinos = <<>>
    /\ cur.skus = <<>> \/ cur.drained >= cur.max_drain
    /\ traslados_fase3' = transfers
    /\ pc' = "out"
    /\ UNCHANGED <<inputs, stock, needs, cur, transfers, traslados_fase1,
                   traslados_fase2, opts, last, ejecutados, df_traslados>>
    /\ UNCHANGED servida

----------------------------------------------------------------------------
\* run_all: the consolidated output, each transfer with its phase label

\* faulty variant: every transfer gets the label of phase 1
WithFase_etiqueta_fija(ts, fase) ==
    [j \in DOMAIN ts |-> [f \in DOMAIN ts[j] \cup {"Fase"} |->
                              IF f = "Fase" THEN "Fase 1: Base" ELSE ts[j][f]]]

WithFase(ts, fase) ==
    [j \in DOMAIN ts |-> [f \in DOMAIN ts[j] \cup {"Fase"} |->
                              IF f = "Fase" THEN fase ELSE ts[j][f]]]

RunAllReturn ==
    /\ pc = "out"
    /\ df_traslados' = WithFase(traslados_fase1, "Fase 1: Base")
                       \o WithFase(traslados_fase2, "Fase 2: Curvas")
                       \o WithFase(traslados_fase3, "Fase 3: Drenaje")
    /\ pc' = "done"
    /\ UNCHANGED <<inputs, stock, needs, cur, transfers, traslados_fase1,
                   traslados_fase2, traslados_fase3, opts, last, ejecutados>>
    /\ UNCHANGED servida

Next ==
    \/ Fase1Start \/ NeedBegin \/ NeedOrigin \/ Fase1End
    \/ Fase2Skip \/ Fase2Start \/ Fase2End \/ CurvaStore \/ CurvaRef \/ CurvaTalla
    \/ Fase3Skip \/ Fase3Start \/ Fase3End \/ DrainSku \/ DrainDest
    \/ RunAllReturn

Spec == Init /\ [][Next]_vars
----------------------------------------------------------------------------
\* Properties of a run of run_all

\* the units of a list of transfers
RECURSIVE SumUnidades(_)
SumUnidades(ts) == IF ts = <<>> THEN 0 ELSE Head(ts).unidades + SumUnidades(Tail(ts))

\* every transfer made so far in the run
AllTransfers ==
    SeqRange(traslados_fase1) \cup SeqRange(traslados_fase2)
    \cup SeqRange(traslados_fase3) \cup SeqRange(transfers)

C2_NoNegativeRow == \A i \in DOMAIN stock : stock[i].Existencia >= 0

\* C3: a transfer whose destination held, right before it, no positive quantity
\* of any size of the transferred reference is executed only if can_seed_to_store
\* is true on the stock right before it.
C3_SeedingGate == (last.fase # 0 /\ ~last.hadRef) => last.gate

\* a store has no sales history of a reference: no ADU row of any of its sizes
NoHistory(tienda, referencia) ==
    \A key \in DOMAIN adu_map :
        key[1] = tienda => SubSeq(key[2], 1, Min2(Len(referencia), Len(key[2]))) # referencia

\* C4: with no_seed on and allow_seed_if_adu off, a store that has no sales
\* history of a reference and holds zero units of every size of it when the run
\* starts (no row, or only rows of quantity 0) is refused by can_seed_to_store and
\* receives no transfer of that reference in any phase.
C4_NoSeedNoTransfer ==
    \A t \in {CHIPICHAPE, ECOMMERCE} :
        (/\ no_seed /\ ~allow_seed_if_adu
         /\ NoHistory(t, REF1)
         /\ ~has_ref_now(stock_inicial, t, REF1))
        => /\ \A sku \in {SKU_X, SKU_Y} :
                 ~can_seed_to_store(stock_inicial, adu_map, no_seed, allow_seed_if_adu,
                                    t, REF1, sku)
           /\ \A tr \in AllTransfers : ~(tr.destino = t /\ tr.Referencia = REF1)

FloorShare(W, r) == IF r <= 0 THEN W ELSE (W * (RATIO_SCALE - r)) \div RATIO_SCALE

\* C7 as stated: in phase 3, for a safety ratio r in [0, 1) and a warehouse total
\* W at the start of the phase, the drain limit is floor(W * (1 - r)) and the
\* units of the phase's transfers never exceed it.
C7_DrainLimit_AsStated ==
    (cur.fase = 3 /\ opts.safety_ratio[1] < RATIO_SCALE)
    => /\ cur.max_drain = FloorShare(cur.bodega_inicial, opts.safety_ratio[1])
       /\ SumUnidades(transfers) <= FloorShare(cur.bodega_inicial, opts.safety_ratio[1])

\* the scenario of C8: the warehouse holds 100 units of X (ADU 0), a physical
\* store holds one row of 2 units of X with MinObjetivo 2 and ADU 1.0, no other store holds
\* X, and phase 1 has just ended
C8_Scenario ==
    /\ pc = "f2"
    /\ bodega_principal = <<BODEGA>>
    /\ get_stock(stock_inicial, BODEGA, SKU_X) = 100
    /\ AduOf(adu_map, BODEGA, SKU_X) = 0
    /\ Cardinality(idx_tienda_sku(stock_inicial, CHIPICHAPE, SKU_X)) = 1
    /\ get_stock(stock_inicial, CHIPICHAPE, SKU_X) = 2
    /\ AduOf(adu_map, CHIPICHAPE, SKU_X) = ADU_SCALE
    /\ idx_tienda_sku(stock_inicial, ECOMMERCE, SKU_X) = {}
    /\ FirstRow(stock, CHIPICHAPE, SKU_X).MinObjetivo = 2

\* C8 as stated: in the scenario the store's target is 7 and phase 1 moves 5
\* units of X from the warehouse to the store, leaving 7 and 95.
C8_Target7_AsStated ==
    C8_Scenario
    => /\ calculate_target_units(stock, CHIPICHAPE, SKU_X) = 7
       /\ \E tr \in SeqRange(traslados_fase1) :
             tr.origen = BODEGA /\ tr.destino = CHIPICHAPE /\ tr.unidades = 5
       /\ get_stock(stock, CHIPICHAPE, SKU_X) = 7
       /\ get_stock(stock, BODEGA, SKU_X) = 95

\* C8: in the scenario the store's target is 6 (7 capped at MAX_STOCK_PER_SKU),
\* the store is no shortfall (2 is not below its MinObjetivo 2), and phase 1
\* moves nothing to it: the store keeps 2 and the warehouse 100.
C8_Target6_NoTransfer ==
    C8_Scenario
    => /\ calculate_target_units(stock, CHIPICHAPE, SKU_X) = MAX_STOCK_PER_SKU
       /\ \A tr \in SeqRange(traslados_fase1) :
             ~(tr.destino = CHIPICHAPE /\ build_sku(tr.Referencia, tr.Talla) = SKU_X)
       /\ get_stock(stock, CHIPICHAPE, SKU_X) = 2
       /\ get_stock(stock, BODEGA, SKU_X) = 100

\* the scenario after phase 1
C8_Witness == C8_Scenario /\ traslados_fase1 = <<>>

----------------------------------------------------------------------------
\* rank_origins_for_sku on its own: an engine is built on a table of five stores
\* and the origins of one SKU are ranked for one destination

\* quantities of SKU_X per store, units sold per store, lead-time rows per origin
RankBodegaQtys == {<<>>, <<10>>}
RankUnicentroQtys == {<<>>, <<9>>, <<20>>}
RankBarranquillaQtys == {<<>>, <<15>>}
RankEcomQtys == {<<>>, <<12>>}
RankChipiQtys == {<<1>>}
RankVentas == {0, 15, 30}
RankDestVentas == {0, 30}

\* a row of the lead-time table as prepare_auxiliary_data leaves it
TiemposRow(o, d, eta, pri) == [_O |-> o, _D |-> d, _ETA_NUM |-> <<eta>>, _PRI_NUM |-> <<pri>>]

\* no row for the origin, or one of two rows (days, priority in tenths)
TiemposOptions(o, d) == {{}, {TiemposRow(o, d, 1, 25)}, {TiemposRow(o, d, 3, 10)}}

RankVentasOf(vu, vq, vc) ==
    LET keys == (IF vu > 0 THEN {<<UNICENTRO, SKU_X>>} ELSE {})
                \cup (IF vq > 0 THEN {<<BARRANQUILLA, SKU_X>>} ELSE {})
                \cup (IF vc > 0 THEN {<<CHIPICHAPE, SKU_X>>} ELSE {})
    IN  [key \in keys |-> IF key[1] = UNICENTRO THEN vu
                          ELSE IF key[1] = BARRANQUILLA THEN vq ELSE vc]

InitRank ==
    \E bq \in RankBodegaQtys, uq \in RankUnicentroQtys, qq \in RankBarranquillaQtys,
       eq \in RankEcomQtys, cq \in RankChipiQtys,
       vu \in RankVentas, vq \in RankVentas, vc \in RankDestVentas,
       tb \in TiemposOptions(BODEGA, CHIPICHAPE),
       tu \in TiemposOptions(UNICENTRO, CHIPICHAPE),
       tq \in TiemposOptions(BARRANQUILLA, CHIPICHAPE) :
        LET df_stock == KeyRows(CHIPICHAPE, REF1, T0M, cq)
                        \o KeyRows(UNICENTRO, REF1, T0M, uq)
                        \o KeyRows(BARRANQUILLA, REF1, T0M, qq)
                        \o KeyRows(ECOMMERCE, REF1, T0M, eq)
                        \o KeyRows(BODEGA, REF1, T0M, bq)
            ventas == TablaSinFecha(RankVentasOf(vu, vq, vc))
            adu == calculate_adu(ventas)
            bodega == detect_bodega_principal(df_stock)
        IN  /\ stock_inicial = enrich_stock_with_adu(df_stock, adu)
            /\ stock = AssignMinObjetivo(enrich_stock_with_adu(df_stock, adu), bodega)
            /\ df_ventas = ventas
            /\ adu_map = adu
            /\ tiempos_df = tb \cup tu \cup tq
            /\ bodega_principal = bodega
            /\ no_seed = TRUE
            /\ allow_seed_if_adu = FALSE
            /\ pc = "rank"
            /\ needs = <<>>
            /\ cur = NoCur
            /\ transfers = <<>>
            /\ traslados_fase1 = <<>>
            /\ traslados_fase2 = <<>>
            /\ traslados_fase3 = <<>>
            /\ opts = [enable_curvas |-> <<>>, enable_drenaje |-> <<>>, safety_ratio |-> <<>>]
            /\ total0 = TotalExistencia(df_stock)
            /\ last = NoLast
            /\ ejecutados = <<>>
            /\ servida = NoServida
            /\ llamada = 1
            /\ execution_state = EstadoInicial
            /\ servidor = ServidorInicial
            /\ df_traslados = <<>>

\* origins = rank_origins_for_sku(sku, dest_tienda, dest_referencia)
RankOrigins ==
    /\ pc = "rank"
    /\ \E dest_tienda \in {CHIPICHAPE, ECOMMERCE} :
          cur' = [fase |-> 0, sku |-> SKU_X, dest |-> dest_tienda,
                  origins |-> rank_origins_for_sku(stock, bodega_principal, tiempos_df,
                                                   SKU_X, dest_tienda)]
    /\ pc' = "ranked"
    /\ UNCHANGED <<inputs, df_traslados, stock, needs, transfers, traslados_fase1,
                   traslados_fase2, traslados_fase3, opts, last, ejecutados>>
    /\ UNCHANGED servida

NextRank == RankOrigins

SpecRank == InitRank /\ [][NextRank]_vars

\* the four places of the ranking key of an origin for the ranked destination
KeyRegion(o) == IF check_same_region(stock, o, cur.dest) THEN 0 ELSE 1

KeyPriority(o) ==
    LET p == get_delivery_priority(tiempos_df, o, cur.dest)
    IN  IF p = <<>> THEN RANK_UNKNOWN ELSE TruncDiv(p[1], PRI_DEN)

KeyTime(o) ==
    LET d == get_delivery_days(tiempos_df, o, cur.dest)
    IN  IF d = <<>> THEN RANK_UNKNOWN ELSE d[1]

\* the coverage of a is above that of b (an infinite one counts as the sentinel,
\* above every finite one and equal to another infinite one)
CovAbove(a, b) ==
    LET ca == get_cobertura(stock, a, cur.sku)
        cb == get_cobertura(stock, b, cur.sku)
    IN  IF ca = <<>> THEN cb # <<>>
        ELSE cb # <<>> /\ ca[1] * cb[2] > cb[1] * ca[2]

\* the key of a is strictly below the key of b
KeyBelow(a, b) ==
    \/ KeyRegion(a) < KeyRegion(b)
    \/ /\ KeyRegion(a) = KeyRegion(b)
       /\ \/ KeyPriority(a) < KeyPriority(b)
          \/ /\ KeyPriority(a) = KeyPriority(b)
             /\ \/ CovAbove(a, b)
                \/ (~CovAbove(b, a) /\ KeyTime(a) < KeyTime(b))

\* C9: the ranked list holds exactly the candidates; the warehouse is first when
\* it is a candidate; the others follow in ascending order of the key (region,
\* priority, negated coverage, lead time), so that a same-region origin is never
\* after a different-region one.
C9_RankOrder ==
    pc = "ranked" =>
        LET r == cur.origins
            cands == Candidates(stock, bodega_principal, cur.sku, cur.dest)
            hasBodega == bodega_principal # <<>> /\ bodega_principal[1] \in SeqRange(cands)
            rest == IF hasBodega THEN Tail(r) ELSE r
        IN  /\ Len(r) = Len(cands)
            /\ SeqRange(r) = SeqRange(cands)
            /\ hasBodega => r[1] = bodega_principal[1]
            /\ \A i, j \in DOMAIN rest :
                  i < j => /\ ~IsBodega(bodega_principal, rest[i])
                           /\ ~KeyBelow(rest[j], rest[i])
                           /\ KeyRegion(rest[i]) <= KeyRegion(rest[j])

\* the warehouse is first although a store has a smaller key than it, and a
\* same-region store and a different-region store follow
C9_Witness ==
    /\ pc = "ranked"
    /\ Len(cur.origins) >= 3
    /\ cur.origins[1] = BODEGA
    /\ KeyBelow(cur.origins[2], BODEGA)
    /\ \E i, j \in DOMAIN cur.origins :
          /\ 1 < i /\ i < j
          /\ KeyRegion(cur.origins[i]) = 0
          /\ KeyRegion(cur.origins[j]) = 1

----------------------------------------------------------------------------
\* The seeding gate as a decision table

\* the stores and SKUs of the runs
TiendasDelModelo == {BODEGA, CHIPICHAPE, ECOMMERCE}
SkusDelModelo == {SKU_X, SKU_Y}

\* the store holds a positive row of some variant of the reference
HoldsReference(tienda, referencia) ==
    \E i \in DOMAIN stock :
        stock[i].Tienda = tienda /\ stock[i].Referencia = referencia
        /\ stock[i].Existencia > 0

\* the store's own ADU of the exact SKU is positive
HasDemand(tienda, sku) ==
    <<tienda, sku>> \in DOMAIN adu_map /\ adu_map[<<tienda, sku>>] > 0

\* C11: for every store, SKU, flag setting and stock state the seeding gate
\* allows when the store holds a positive row of any variant of the reference,
\* else when no-seed is off, else when allow-if-demand is on and the store's
\* ADU of that exact SKU is positive, and denies otherwise.
C11_SeedingDecision ==
    \A tienda \in TiendasDelModelo, sku \in SkusDelModelo :
        LET gate == can_seed_to_store(stock, adu_map, no_seed, allow_seed_if_adu,
                                      tienda, REF1, sku)
        IN  /\ HoldsReference(tienda, REF1) => gate
            /\ (~HoldsReference(tienda, REF1) /\ ~no_seed) => gate
            /\ (~HoldsReference(tienda, REF1) /\ no_seed /\ allow_seed_if_adu
                  /\ HasDemand(tienda, sku)) => gate
            /\ (~HoldsReference(tienda, REF1) /\ no_seed
                  /\ ~(allow_seed_if_adu /\ HasDemand(tienda, sku))) => ~gate

\* no-seed and the demand exception are on, a store without the reference has
\* demand for X and none for Y: the gate allows X and denies Y
C11_Witness ==
    /\ no_seed /\ allow_seed_if_adu
    /\ ~HoldsReference(CHIPICHAPE, REF1)
    /\ HasDemand(CHIPICHAPE, SKU_X) /\ ~HasDemand(CHIPICHAPE, SKU_Y)
    /\ can_seed_to_store(stock, adu_map, no_seed, allow_seed_if_adu, CHIPICHAPE, REF1, SKU_X)
    /\ ~can_seed_to_store(stock, adu_map, no_seed, allow_seed_if_adu, CHIPICHAPE, REF1, SKU_Y)

----------------------------------------------------------------------------
\* Shortfalls of phase 1

\* the minimum_target of a store that is not the warehouse
MinObjetivoDe(tienda) == IF IsEcomOf(tienda) THEN MIN_POR_SKU_ECOM ELSE MIN_POR_SKU_TIENDA

\* the (store, SKU) keys of the input table that are not the warehouse's
ClavesDeTienda ==
    {<<stock_inicial[i].Tienda, stock_inicial[i].SKU>> :
        i \in {j \in DOMAIN stock_inicial : ~IsBodega(bodega_principal, stock_inicial[j].Tienda)}}

\* the total of the key over all its rows, at the start of the run, is at least
\* the minimum_target
Abastecida(tienda, sku) ==
    /\ idx_tienda_sku(stock_inicial, tienda, sku) # {}
    /\ SumExistencia(stock_inicial, idx_tienda_sku(stock_inicial, tienda, sku))
          >= MinObjetivoDe(tienda) * Den

\* C12: a non-warehouse (store, SKU) whose total over all its rows is at least
\* its minimum_target receives no phase-1 transfer, and when every non-warehouse
\* (store, SKU) is so, phase 1 creates no transfer.
C12_NoShortfallNoTransfer ==
    /\ last.fase = 1 => ~Abastecida(last.destino, last.sku)
    /\ ((pc \in {"f1_need", "f1_origin"}) /\ \A k \in ClavesDeTienda : Abastecida(k[1], k[2]))
          => transfers = <<>>

----------------------------------------------------------------------------
\* The output of run_all against the order of execution

\* the label of a phase
EtiquetaDeFase(k) ==
    CASE k = 1 -> "Fase 1: Base" [] k = 2 -> "Fase 2: Curvas" [] OTHER -> "Fase 3: Drenaje"

\* a row of the output is the executed transfer, field by field
MismoTraslado(fila, t) ==
    /\ fila.origen = t.origen /\ fila.destino = t.destino
    /\ fila.unidades = t.unidades
    /\ fila.Referencia = t.Referencia /\ fila.Talla = t.Talla
    /\ fila.origen_antes = t.origen_antes /\ fila.origen_despues = t.origen_despues
    /\ fila.destino_antes = t.destino_antes /\ fila.destino_despues = t.destino_despues

\* C13: in the table run_all returns, every transfer carries the label of the
\* phase that executed it, the transfers of phase 1 come before those of phase 2,
\* which come before those of phase 3, and within a phase they are in the order
\* of execution.
C13_PhaseOrder ==
    pc = "done"
    => /\ Len(df_traslados) = Len(ejecutados)
       /\ \A i \in DOMAIN df_traslados :
             /\ i \in DOMAIN ejecutados
             /\ df_traslados[i].Fase = EtiquetaDeFase(ejecutados[i].fase)
             /\ MismoTraslado(df_traslados[i], ejecutados[i].traslado)
       /\ \A i, j \in DOMAIN df_traslados :
             (i < j /\ df_traslados[i].Fase = "Fase 2: Curvas")
                => df_traslados[j].Fase # "Fase 1: Base"
       /\ \A i, j \in DOMAIN df_traslados :
             (i < j /\ df_traslados[i].Fase = "Fase 3: Drenaje")
                => df_traslados[j].Fase = "Fase 3: Drenaje"

\* a finished run with a transfer of phase 2 followed by two different transfers
\* of phase 3
C13_Witness ==
    /\ pc = "done"
    /\ Len(df_traslados) = 3
    /\ df_traslados[1].Fase = "Fase 2: Curvas"
    /\ df_traslados[2].Fase = "Fase 3: Drenaje"
    /\ df_traslados[3].Fase = "Fase 3: Drenaje"
    /\ df_traslados[2].destino # df_traslados[3].destino

----------------------------------------------------------------------------
\* Runs without a warehouse

\* C14: when no warehouse is designated and none is detected, run_all runs
\* phase 1, neither the completer nor the drainer is entered, phases 2 and 3
\* leave the stock table as phase 1 left it, and the table that is returned
\* holds the transfers of phase 1 and no transfer of phase 2 or phase 3.
C14_NoWarehouse ==
    [][bodega_principal = <<>>
       => /\ pc' \notin {"f2_loop", "f3_loop"}
          /\ traslados_fase2' = <<>> /\ traslados_fase3' = <<>>
          /\ (pc \in {"f2", "f3", "out"} => stock' = stock)
          /\ (pc' = "done"
                => /\ Len(df_traslados') = Len(traslados_fase1)
                   /\ \A i \in DOMAIN df_traslados' :
                         df_traslados'[i].Fase = "Fase 1: Base")]_vars

\* a finished run without a warehouse in which phase 1 moved stock between stores
C14_Witness ==
    /\ pc = "done"
    /\ bodega_principal = <<>>
    /\ df_traslados # <<>>

----------------------------------------------------------------------------
\* The warehouse as a destination

\* the warehouse's total over all its rows (numerator)
TotalBodega(st) ==
    SumExistencia(st, {i \in DOMAIN st : IsBodega(bodega_principal, st[i].Tienda)})

\* C15: with a designated warehouse, no transfer of any phase has the warehouse
\* as its destination, and no step of the run raises the warehouse's total
\* quantity (so it is lower or equal after each phase than before it).
C15_WarehouseNeverDestination ==
    [][bodega_principal # <<>>
       => /\ TotalBodega(stock') <= TotalBodega(stock)
          /\ (last'.fase # 0 => last'.destino # bodega_principal[1])]_vars

\* the warehouse has sales of its own for X and phase 3 has drained X to a store
C15_Witness ==
    /\ bodega_principal # <<>>
    /\ HasDemand(BODEGA, SKU_X)
    /\ last.fase = 3
    /\ last.sku = SKU_X
    /\ last.origen = BODEGA

----------------------------------------------------------------------------
\* The warehouse in phase 1

----------------------------------------------------------------------------
\* Quantities of the transfers

\* C17: every transfer recorded in any phase, and every row of the table that is
\* returned, has a quantity that is an integer greater than zero.
C17_PositiveQuantity ==
    /\ \A t \in AllTransfers : t.unidades \in Nat \ {0}
    /\ \A i \in DOMAIN ejecutados : ejecutados[i].traslado.unidades \in Nat \ {0}
    /\ \A i \in DOMAIN df_traslados : df_traslados[i].unidades \in Nat \ {0}
    /\ last.fase # 0 => last.cantidad \in Nat \ {0}

\* a finished run with transfers of one unit and of more than one unit
C17_Witness ==
    /\ pc = "done"
    /\ \E i, j \in DOMAIN df_traslados :
          df_traslados[i].unidades = 1 /\ df_traslados[j].unidades > 1

----------------------------------------------------------------------------
\* Runs on an empty sales table

\* C18: with an empty sales table every stock row has ADU 0 and infinite
\* coverage, phases 2 and 3 create no transfer, and the table that is returned
\* holds transfers of phase 1 only.
C18_EmptySales ==
    DOMAIN adu_map = {}
    => /\ \A i \in DOMAIN stock_inicial :
             stock_inicial[i].ADU = 0 /\ Cobertura_dias(stock_inicial[i]) = <<>>
       /\ \A i \in DOMAIN stock : stock[i].ADU = 0
       /\ traslados_fase2 = <<>> /\ traslados_fase3 = <<>>
       /\ \A i \in DOMAIN ejecutados : ejecutados[i].fase = 1
       /\ \A i \in DOMAIN df_traslados : df_traslados[i].Fase = "Fase 1: Base"

\* a finished run without sales in which phases 2 and 3 were enabled and the
\* warehouse still held stock: phase 1 moved stock, phases 2 and 3 did not
C18_Witness ==
    /\ pc = "done"
    /\ DOMAIN adu_map = {}
    /\ opts.enable_curvas = <<TRUE>> /\ opts.enable_drenaje = <<TRUE>>
    /\ bodega_principal # <<>>
    /\ get_bodega_total(stock, bodega_principal[1]) > 0
    /\ df_traslados # <<>>

----------------------------------------------------------------------------
\* The ADU of a sales table: the orchestrator is built on a table of sales rows,
\* computes the ADU table and joins it to the stock

VentasTiendas == {CHIPICHAPE, ECOMMERCE}
VentasUnidades == {<<>>, <<1>>, <<2>>}
VentasFechas == {<<>>, <<1>>, <<2>>}

\* the rows a sales table can hold: a date that does not parse is <<>>
FilasConFecha ==
    [Tienda : VentasTiendas, SKU : {SKU_X}, Unidades : VentasUnidades, Fecha : VentasFechas]

FilasSinFecha ==
    [Tienda : VentasTiendas, SKU : {SKU_X}, Unidades : VentasUnidades, Fecha : {<<>>}]

TablasDeVentas ==
    UNION {{[con_fecha |-> TRUE, filas |-> f] : f \in [1..n -> FilasConFecha]}
           \cup {[con_fecha |-> FALSE, filas |-> f] : f \in [1..n -> FilasSinFecha]} :
           n \in 0..MaxVentasRows}

InitAdu ==
    \E ventas \in TablasDeVentas :
        LET df_stock == KeyRows(CHIPICHAPE, REF1, T0M, <<2>>)
                        \o KeyRows(ECOMMERCE, REF1, T0M, <<1>>)
                        \o KeyRows(BODEGA, REF1, T0M, <<2>>)
        IN  /\ stock_inicial = df_stock
            /\ stock = df_stock
            /\ df_ventas = ventas
            /\ adu_map = <<>>
            /\ tiempos_df = {}
            /\ bodega_principal = <<>>
            /\ no_seed = TRUE
            /\ allow_seed_if_adu = FALSE
            /\ pc = "adu"
            /\ needs = <<>>
            /\ cur = NoCur
            /\ transfers = <<>>
            /\ traslados_fase1 = <<>>
            /\ traslados_fase2 = <<>>
            /\ traslados_fase3 = <<>>
            /\ opts = [enable_curvas |-> <<>>, enable_drenaje |-> <<>>, safety_ratio |-> <<>>]
            /\ total0 = TotalExistencia(df_stock)
            /\ last = NoLast
            /\ ejecutados = <<>>
            /\ servida = NoServida
            /\ llamada = 1
            /\ execution_state = EstadoInicial
            /\ servidor = ServidorInicial
            /\ df_traslados = <<>>

\* self.adu_df = calculate_adu_from_ventas(df_ventas)
CalculateAdu ==
    /\ pc = "adu"
    /\ adu_map' = calculate_adu(df_ventas)
    /\ pc' = "adu_done"
    /\ UNCHANGED <<stock_inicial, df_ventas, tiempos_df, bodega_principal, no_seed,
                   allow_seed_if_adu, total0, df_traslados, stock, needs, cur, transfers,
                   traslados_fase1, traslados_fase2, traslados_fase3, opts, last, ejecutados>>
    /\ UNCHANGED <<servida, llamada, execution_state, servidor>>

\* self.df_stock = enrich_stock_with_adu(df_stock, self.adu_df)
EnrichStock ==
    /\ pc = "adu_done"
    /\ stock' = enrich_stock_with_adu(stock, adu_map)
    /\ pc' = "enriched"
    /\ UNCHANGED <<inputs, df_traslados, needs, cur, transfers, traslados_fase1,
                   traslados_fase2, traslados_fase3, opts, last, ejecutados>>
    /\ UNCHANGED servida

NextAdu == CalculateAdu \/ EnrichStock

SpecAdu == InitAdu /\ [][NextAdu]_vars

\* every row of the sales table of a key, rows with a date that does not parse
\* included
FilasDeClave(tienda, sku) ==
    SelectSeq(df_ventas.filas, LAMBDA fila : fila.Tienda = tienda /\ fila.SKU = sku)

\* the dates observed in the sales table
FechasObservadas ==
    {df_ventas.filas[i].Fecha[1] :
        i \in {j \in DOMAIN df_ventas.filas : df_ventas.filas[j].Fecha # <<>>}}

\* the period the ADU is divided by: the default when there is no date column or
\* when every date is invalid, else the number of distinct dates
PeriodoEnunciado ==
    IF ~df_ventas.con_fecha \/ FechasObservadas = {}
    THEN DIAS_PERIODO_DEFAULT ELSE Cardinality(FechasObservadas)

\* C19: the ADU joined to a stock row equals, to the four decimals an ADU keeps,
\* the units of all the sales rows of its (store, item) divided by the number
\* of distinct dates of the sales table, and divided by 30 days when the table
\* has no date column or when no date of it is valid.
C19_AduAsStated ==
    pc = "enriched"
    => \A i \in DOMAIN stock :
          stock[i].ADU = RoundHalfEven(SumVentas(FilasDeClave(stock[i].Tienda, stock[i].SKU))
                                        * ADU_SCALE, PeriodoEnunciado)

----------------------------------------------------------------------------
\* Phase 2 run on its own

\* run_fase2_completar_curvas returns pd.DataFrame(self.traslados_fase2): the
\* records of the completer as they are, one column per key of a record
Fase2Retorno == traslados_fase2

\* C20: when phase 2 has run after phase 1 and the table it returns is not
\* empty, every transfer of the table has a phase label, and the label names the
\* completion of curves.
C20_Fase2Labelled ==
    (pc = "f3" /\ Fase2Retorno # <<>>)
    => \A i \in DOMAIN Fase2Retorno :
          /\ "Fase" \in DOMAIN Fase2Retorno[i]
          /\ Fase2Retorno[i].Fase = "Fase 2: Curvas"

----------------------------------------------------------------------------
\* Coverage of the ranked origins

\* C21: every ranked origin can send a positive quantity and, when its coverage
\* is finite, the coverage of the destination is finite too and the origin's
\* coverage is above it by more than COV_BUFFER_DAYS; an origin with finite
\* coverage is never ranked for a destination with infinite coverage.
C21_RankedCoverage ==
    pc = "ranked" =>
        \A j \in DOMAIN cur.origins :
            LET cov_origen == get_cobertura(stock, cur.origins[j], cur.sku)
                cov_destino == get_cobertura(stock, cur.dest, cur.sku)
            IN  /\ allowed_to_send(stock, bodega_principal, cur.origins[j], cur.sku) > 0
                /\ cov_origen # <<>> =>
                      /\ cov_destino # <<>>
                      /\ cov_origen[1] * cov_destino[2]
                            > cov_destino[1] * cov_origen[2]
                              + COV_BUFFER_DAYS * cov_origen[2] * cov_destino[2]

----------------------------------------------------------------------------
\* The units a shortfall receives in phase 1

\* C22: a shortfall that phase 1 has processed and that the seeding gate did
\* not block received min(gap, S) units, gap being its target minus its stock
\* and S the units its ranked origins could send; when S covers the gap the
\* key ends at its target, which is at least its minimum, else it received S.
C22_GapFilled ==
    (servida # NoServida /\ servida.despues # <<>> /\ ~servida.bloqueada)
    => LET gap == servida.target - servida.antes
           movido == servida.despues[1] - servida.antes
       IN  /\ movido = Min2(gap, servida.S)
           /\ servida.S >= gap => /\ servida.despues[1] = servida.target
                                  /\ servida.target >= MinObjetivoDe(servida.tienda)
           /\ servida.S < gap => movido = servida.S

----------------------------------------------------------------------------
\* The order in which phase 1 serves the shortfalls

\* the ADU of the shortfall a phase-1 transfer serves
AduServida(e) == AduOf(adu_map, e.traslado.destino, build_sku(e.traslado.Referencia, e.traslado.Talla))

\* C23: the transfers of phase 1 are recorded in non-increasing order of the
\* ADU of the shortfall they serve: no transfer follows one that serves a
\* shortfall of strictly lower ADU.
C23_AduOrder ==
    \A i, j \in DOMAIN ejecutados :
        (i < j /\ ejecutados[i].fase = 1 /\ ejecutados[j].fase = 1)
        => AduServida(ejecutados[i]) >= AduServida(ejecutados[j])

\* two stores took from the same origin, the one with the higher ADU first, and
\* the second transfer left the origin without a unit of the item
C23_Witness ==
    \E i, j \in DOMAIN ejecutados :
        /\ i < j /\ ejecutados[i].fase = 1 /\ ejecutados[j].fase = 1
        /\ ejecutados[i].traslado.origen = ejecutados[j].traslado.origen
        /\ ejecutados[i].traslado.destino # ejecutados[j].traslado.destino
        /\ AduServida(ejecutados[i]) > AduServida(ejecutados[j])
        /\ ejecutados[j].traslado.origen_despues = 0

----------------------------------------------------------------------------
\* Phase 2 completes references the store already carries

\* C24: every transfer of phase 2 leaves the warehouse for another store that,
\* on the stock right before the transfer, holds a positive quantity of a size
\* of the same reference.
C24_CurveOnlyCarriedRefs ==
    /\ last.fase = 2 =>
          /\ bodega_principal # <<>>
          /\ last.origen = bodega_principal[1]
          /\ last.destino # bodega_principal[1]
          /\ last.hadRef
    /\ \A i \in DOMAIN ejecutados :
          ejecutados[i].fase = 2 =>
             /\ ejecutados[i].traslado.origen = bodega_principal[1]
             /\ ejecutados[i].traslado.destino # bodega_principal[1]

\* phase 2 created the row of a size the store did not hold, of a reference of
\* which it held another size
C24_Witness ==
    /\ last.fase = 2
    /\ last.destino_antes = 0
    /\ idx_tienda_sku(stock_inicial, last.destino, last.sku) = {}
    /\ last.hadRef

----------------------------------------------------------------------------
\* The sizes phase 2 completes and the units it sends

\* C25: a size receives a transfer of phase 2 only when its ADU at the store is
\* strictly above ADU_MIN_THRESHOLD and the store holds less than
\* MIN_POR_SKU_TIENDA of it; the units are the least of what is missing to the
\* minimum, what is missing to MAX_STOCK_PER_SKU and what the warehouse holds,
\* so that the size does not end above the minimum.
C25_CurveQuantity ==
    last.fase = 2 =>
        /\ AduOf(adu_map, last.destino, last.sku) > ADU_MIN_THRESHOLD
        /\ last.destino_antes < MIN_POR_SKU_TIENDA
        /\ last.cantidad = Min2(MIN_POR_SKU_TIENDA - last.destino_antes,
                                Min2(MAX_STOCK_PER_SKU - last.destino_antes,
                                     last.origen_antes))
        /\ last.destino_despues <= MIN_POR_SKU_TIENDA

----------------------------------------------------------------------------
\* The order in which phase 2 visits the stores: the completer is built on a
\* stock table and an ADU table and the stores are prioritized

PrioTiendas == <<BODEGA, TIENDA_NUEVA, BUGA, CHIPICHAPE, ECOMMERCE>>
PrioQtys == {<<>>, <<1>>}
PrioVentas == {0, 15, 30}

\* the rows of the stores that are present, in the order of PrioTiendas
RECURSIVE PrioStock(_, _)
PrioStock(tiendas, qs) ==
    IF tiendas = <<>> THEN <<>>
    ELSE KeyRows(Head(tiendas), REF1, T0M, qs[Head(tiendas)])
         \o PrioStock(Tail(tiendas), qs)

PrioVentasOf(vs) ==
    [key \in {<<t, SKU_X>> : t \in {u \in DOMAIN vs : vs[u] > 0}} |-> vs[key[1]]]

InitPrio ==
    \E qs \in [SeqRange(PrioTiendas) -> PrioQtys],
       vs \in [SeqRange(PrioTiendas) \ {BODEGA} -> PrioVentas] :
        LET df_stock == PrioStock(PrioTiendas, qs)
            ventas == TablaSinFecha(PrioVentasOf(vs))
            adu == calculate_adu(ventas)
            bodega == detect_bodega_principal(df_stock)
        IN  /\ stock_inicial = enrich_stock_with_adu(df_stock, adu)
            /\ stock = enrich_stock_with_adu(df_stock, adu)
            /\ df_ventas = ventas
            /\ adu_map = adu
            /\ tiempos_df = {}
            /\ bodega_principal = bodega
            /\ no_seed = TRUE
            /\ allow_seed_if_adu = FALSE
            /\ pc = "prio"
            /\ needs = <<>>
            /\ cur = NoCur
            /\ transfers = <<>>
            /\ traslados_fase1 = <<>>
            /\ traslados_fase2 = <<>>
            /\ traslados_fase3 = <<>>
            /\ opts = [enable_curvas |-> <<>>, enable_drenaje |-> <<>>, safety_ratio |-> <<>>]
            /\ total0 = TotalExistencia(df_stock)
            /\ last = NoLast
            /\ ejecutados = <<>>
            /\ servida = NoServida
            /\ llamada = 1
            /\ execution_state = EstadoInicial
            /\ servidor = ServidorInicial
            /\ df_traslados = <<>>

\* stores = self.prioritize_stores()
PrioritizeStores ==
    /\ pc = "prio"
    /\ bodega_principal # <<>>
    /\ cur' = [fase |-> 0, stores |-> prioritize_stores(stock, adu_map, bodega_principal[1])]
    /\ pc' = "prioritized"
    /\ UNCHANGED <<inputs, df_traslados, stock, needs, transfers, traslados_fase1,
                   traslados_fase2, traslados_fase3, opts, last, ejecutados, servida>>

NextPrio == PrioritizeStores

SpecPrio == InitPrio /\ [][NextPrio]_vars

\* the rank of a store's category: A before B before C before a store that
\* the classification does not hold
RangoEnunciado(tienda) ==
    IF tienda \in DOMAIN STORE_CATEGORY THEN CatRank(STORE_CATEGORY[tienda]) ELSE 3

\* the store a is not after the store b in the order category, total ADU
\* descending, name
NoDespues(a, b) ==
    \/ RangoEnunciado(a) < RangoEnunciado(b)
    \/ /\ RangoEnunciado(a) = RangoEnunciado(b)
       /\ \/ AduPerStore(adu_map, a) > AduPerStore(adu_map, b)
          \/ /\ AduPerStore(adu_map, a) = AduPerStore(adu_map, b)
             /\ NameRank(a) <= NameRank(b)

\* C26: phase 2 visits every store but the warehouse, in the order category A,
\* B, C, then the stores without a classification, then total ADU descending,
\* then name; a store without a classification comes after every store of
\* category C.
C26_StoreOrder ==
    pc = "prioritized" =>
        /\ SeqRange(cur.stores) = {stock[i].Tienda : i \in DOMAIN stock} \ {bodega_principal[1]}
        /\ \A i, j \in DOMAIN cur.stores :
              i < j => /\ cur.stores[i] # cur.stores[j]
                       /\ NoDespues(cur.stores[i], cur.stores[j])

----------------------------------------------------------------------------
\* The destinations of phase 3

\* C27: every transfer of phase 3 leaves the warehouse for another store whose
\* own ADU of the item is positive; an item without a store that sells it is
\* not drained.
C27_DrainOnlyToSellers ==
    /\ last.fase = 3 =>
          /\ bodega_principal # <<>>
          /\ last.origen = bodega_principal[1]
          /\ last.destino # bodega_principal[1]
          /\ HasDemand(last.destino, last.sku)
    /\ \A i \in DOMAIN ejecutados :
          ejecutados[i].fase = 3 =>
             LET t == ejecutados[i].traslado
             IN  /\ t.origen = bodega_principal[1]
                 /\ t.destino # bodega_principal[1]
                 /\ HasDemand(t.destino, build_sku(t.Referencia, t.Talla))

\* phase 3 ran with the whole warehouse as its budget and drained the item a
\* store sells, and the item no store sells is still in the warehouse
C27_Witness ==
    /\ pc = "done"
    /\ opts.safety_ratio = <<0>>
    /\ \E i \in DOMAIN ejecutados :
          /\ ejecutados[i].fase = 3
          /\ build_sku(ejecutados[i].traslado.Referencia, ejecutados[i].traslado.Talla) = SKU_X
    /\ \A t \in TiendasDelModelo : ~HasDemand(t, SKU_Y)
    /\ get_stock(stock, BODEGA, SKU_Y) > 0
    /\ get_stock(stock, BODEGA, SKU_Y) = get_stock(stock_inicial, BODEGA, SKU_Y)

----------------------------------------------------------------------------
\* Replaying the transfer table on the initial stock

\* the units of a (store, SKU) after the first n rows of the returned table
\* have been applied to the stock the run started from
RECURSIVE Replay(_, _, _)
Replay(n, tienda, sku) ==
    IF n = 0 THEN get_stock(stock_inicial, tienda, sku)
    ELSE LET fila == df_traslados[n]
             es_sku == build_sku(fila.Referencia, fila.Talla) = sku
         IN  Replay(n - 1, tienda, sku)
             + (IF es_sku /\ fila.destino = tienda THEN fila.unidades ELSE 0)
             - (IF es_sku /\ fila.origen = tienda THEN fila.unidades ELSE 0)

\* Over exact arithmetic the replay succeeds: in the table a run returns, the
\* quantities before of each transfer are the totals of the initial stock with
\* the earlier transfers of the table applied, its quantities after are those
\* moved by its units, and the whole table applied to the initial stock gives
\* the totals of the final stock.
ReplayExacto ==
    pc = "done" =>
        /\ \A n \in DOMAIN df_traslados :
              LET fila == df_traslados[n]
                  sku == build_sku(fila.Referencia, fila.Talla)
              IN  /\ fila.origen_antes = Replay(n - 1, fila.origen, sku)
                  /\ fila.destino_antes = Replay(n - 1, fila.destino, sku)
                  /\ fila.origen_despues = fila.origen_antes - fila.unidades
                  /\ fila.destino_despues = fila.destino_antes + fila.unidades
        /\ \A tienda \in TiendasDelModelo, sku \in SkusDelModelo :
              Replay(Len(df_traslados), tienda, sku) = get_stock(stock, tienda, sku)

----------------------------------------------------------------------------
\* The same transfer over binary64, the arithmetic of the Existencia column
\*
\* A double is a sign and a magnitude counted in units of 2^-56, the magnitude
\* written in three limbs of 21 bits, lowest first.  Every value met below is
\* under 2^7 and either zero or at least 2^-3 in size, or an exact multiple
\* of the unit, so rounding to 53 significant bits (ties to even) over this
\* grid is the rounding of the hardware.

\* 21 bits to a limb; one unit of stock is 2^14 in the highest limb; 52 stored
\* bits of the significand and the implicit one
Limb == 2^21
EscalaAlta == 2^14
Mantisa == 52 + 1
MagCero == <<0, 0, 0>>

MagMenor(a, b) ==
    \/ a[3] < b[3]
    \/ a[3] = b[3] /\ a[2] < b[2]
    \/ a[3] = b[3] /\ a[2] = b[2] /\ a[1] < b[1]

MagAdd(a, b) ==
    LET s1 == a[1] + b[1]
        s2 == a[2] + b[2] + (s1 \div Limb)
        s3 == a[3] + b[3] + (s2 \div Limb)
    IN  <<s1 % Limb, s2 % Limb, s3>>

\* a - b for b not above a
MagSub(a, b) ==
    LET d1 == a[1] - b[1]
        p1 == IF d1 < 0 THEN 1 ELSE 0
        d2 == a[2] - b[2] - p1
        p2 == IF d2 < 0 THEN 1 ELSE 0
    IN  <<d1 + p1 * Limb, d2 + p2 * Limb, a[3] - b[3] - p2>>

MagHalf(a) ==
    <<(a[1] + (a[2] % 2) * Limb) \div 2, (a[2] + (a[3] % 2) * Limb) \div 2, a[3] \div 2>>

MagDouble(a) ==
    LET s1 == 2 * a[1]
        s2 == 2 * a[2] + (s1 \div Limb)
    IN  <<s1 % Limb, s2 % Limb, 2 * a[3] + (s2 \div Limb)>>

RECURSIVE BitsDe(_)
BitsDe(x) == IF x = 0 THEN 0 ELSE 1 + BitsDe(x \div 2)

BitLen(a) ==
    IF a[3] > 0 THEN 42 + BitsDe(a[3])
    ELSE IF a[2] > 0 THEN 21 + BitsDe(a[2])
    ELSE BitsDe(a[1])

\* k halvings, keeping the last bit shifted out and whether any bit before it was set
RECURSIVE Desplazar(_, _, _, _)
Desplazar(a, k, guarda, resto) ==
    IF k = 0 THEN [mag |-> a, guarda |-> guarda, resto |-> resto]
    ELSE Desplazar(MagHalf(a), k - 1, a[1] % 2 = 1, resto \/ guarda)

RECURSIVE Reponer(_, _)
Reponer(a, k) == IF k = 0 THEN a ELSE Reponer(MagDouble(a), k - 1)

\* round a magnitude (with something below the unit left over or not) to 53 bits
Round53(a, sobra) ==
    LET k == BitLen(a) - Mantisa
    IN  IF k <= 0 THEN a
        ELSE LET d == Desplazar(a, k, FALSE, sobra)
                 sube == d.guarda /\ (d.resto \/ d.mag[1] % 2 = 1)
             IN  Reponer(IF sube THEN MagAdd(d.mag, <<1, 0, 0>>) ELSE d.mag, k)

FloatDe(n) == [neg |-> n < 0, mag |-> <<0, 0, (IF n < 0 THEN -n ELSE n) * EscalaAlta>>]

\* x + y
FAdd(x, y) ==
    IF x.neg = y.neg THEN [neg |-> x.neg, mag |-> Round53(MagAdd(x.mag, y.mag), FALSE)]
    ELSE IF MagMenor(x.mag, y.mag) THEN [neg |-> y.neg, mag |-> Round53(MagSub(y.mag, x.mag), FALSE)]
    ELSE [neg |-> x.neg /\ x.mag # y.mag, mag |-> Round53(MagSub(x.mag, y.mag), FALSE)]

\* x - y
FSub(x, y) == FAdd(x, [neg |-> ~y.neg, mag |-> y.mag])

\* q / n of two positive integers
FDiv(q, n) ==
    LET alto == q * EscalaAlta
        c3 == alto \div n
        r3 == alto % n
        c2 == (r3 * Limb) \div n
        r2 == (r3 * Limb) % n
        c1 == (r2 * Limb) \div n
        r1 == (r2 * Limb) % n
    IN  [neg |-> FALSE, mag |-> Round53(<<c1, c2, c3>>, r1 # 0)]

\* int(x): the integer part, towards zero
FInt(x) == LET e == x.mag[3] \div EscalaAlta IN IF x.neg THEN -e ELSE e

\* Series.sum(): the rows added in index order, from 0.0
RECURSIVE FSum(_, _)
FSum(filas, n) == IF n = 0 THEN FloatDe(0) ELSE FAdd(FSum(filas, n - 1), filas[n])

\* get_stock of a key whose rows are the given doubles
get_stock_float(filas) == FInt(FSum(filas, Len(filas)))

\* the rows of the origin after execute_transfer took the quantity out of them
RestarDeOrigenFloat(filas, cantidad) ==
    LET qty_per_row == FDiv(cantidad, Len(filas))
    IN  [i \in DOMAIN filas |-> FSub(filas[i], qty_per_row)]

MaxFilasFloat == 3
MaxUnidadesFloat == 6
MaxEnviosFloat == 2

FilasEnteras == UNION {[1..n -> 0..MaxUnidadesFloat] : n \in 1..MaxFilasFloat}

InitFloat ==
    \E filas \in FilasEnteras :
        /\ stock_inicial = <<>>
        /\ stock = <<>>
        /\ df_ventas = <<>>
        /\ adu_map = <<>>
        /\ tiempos_df = {}
        /\ bodega_principal = <<BODEGA>>
        /\ no_seed = TRUE
        /\ allow_seed_if_adu = FALSE
        /\ pc = "float"
        /\ needs = <<>>
        /\ cur = [fase |-> 0, filas |-> [i \in DOMAIN filas |-> FloatDe(filas[i])]]
        /\ transfers = <<>>
        /\ traslados_fase1 = <<>>
        /\ traslados_fase2 = <<>>
        /\ traslados_fase3 = <<>>
        /\ opts = [enable_curvas |-> <<>>, enable_drenaje |-> <<>>, safety_ratio |-> <<>>]
        /\ total0 = get_stock_float([i \in DOMAIN filas |-> FloatDe(filas[i])])
        /\ last = NoLast
        /\ ejecutados = <<>>
        /\ servida = NoServida
        /\ llamada = 1
        /\ execution_state = EstadoInicial
        /\ servidor = ServidorInicial
        /\ df_traslados = <<>>

\* execute_transfer, its origin side: the quantity before, the rows debited,
\* the quantity after, the record appended
ExecuteTransferFloat ==
    /\ pc = "float"
    /\ Len(transfers) < MaxEnviosFloat
    /\ \E cantidad \in 1..MaxUnidadesFloat :
          LET stock_origen_antes == get_stock_float(cur.filas)
              filas == RestarDeOrigenFloat(cur.filas, cantidad)
          IN  /\ cantidad <= stock_origen_antes
              /\ cur' = [cur EXCEPT !.filas = filas]
              /\ transfers' = Append(transfers, [cantidad |-> cantidad, origen_antes |-> stock_origen_antes, origen_despues |-> get_stock_float(filas)])
    /\ UNCHANGED <<inputs, stock, pc, needs, traslados_fase1, traslados_fase2, traslados_fase3, opts, last, ejecutados, servida, df_traslados>>

NextFloat == ExecuteTransferFloat

SpecFloat == InitFloat /\ [][NextFloat]_vars

\* C28: a transfer's recorded origin quantity after is its recorded origin
\* quantity before less its units, as replaying the table requires.
C28_OrigenDespues ==
    pc = "float" =>
        \A n \in DOMAIN transfers :
            transfers[n].origen_despues = transfers[n].origen_antes - transfers[n].cantidad

----------------------------------------------------------------------------
\* run_all called again on the same orchestrator

MaxLlamadas == 2

\* the tables of the orchestrators that are called again
RerunBodegaXQtys == {<<2>>, <<100>>}
RerunEcomXQtys == {<<>>, <<1>>}

InitRerun ==
    \E bx \in RerunBodegaXQtys, cx \in ChipiXQtys, cy \in ChipiYQtys,
       ex \in RerunEcomXQtys, ventas \in VentasTablas, ns \in BOOLEAN :
        InitDe(bx, <<4>>, cx, cy, ex, ventas, ns, FALSE)

\* a further run_all on the orchestrator whose run_all has returned: the
\* constructor does not run again, so the stock and the three lists are those the
\* call before left
RunAllAgain ==
    /\ pc = "done"
    /\ llamada < MaxLlamadas
    /\ llamada' = llamada + 1
    /\ pc' = "start"
    /\ UNCHANGED <<stock_inicial, df_ventas, adu_map, tiempos_df, bodega_principal, no_seed,
                   allow_seed_if_adu, total0, df_traslados, stock, needs, cur, transfers,
                   traslados_fase1, traslados_fase2, traslados_fase3, opts, last, ejecutados,
                   servida, execution_state, servidor>>

NextRerun == Next \/ RunAllAgain

SpecRerun == InitRerun /\ [][NextRerun]_vars

\* the rows of the returned table tagged with a phase
FilasDeFase(fase) == {n \in DOMAIN df_traslados : df_traslados[n].Fase = fase}

\* C29: the table a run_all call returns holds only transfers executed during
\* that call: a call with phase 2 (phase 3) disabled returns no row tagged with
\* that phase, also after an earlier call on the orchestrator that ran it.
C29_OnlyThisCall ==
    pc = "done" =>
        /\ opts.enable_curvas = <<FALSE>> => FilasDeFase("Fase 2: Curvas") = {}
        /\ opts.enable_drenaje = <<FALSE>> => FilasDeFase("Fase 3: Drenaje") = {}

----------------------------------------------------------------------------
\* The web application: POST /api/generate, DELETE /api/reset and the pipeline task
\*
\* The handlers and the pipeline are coroutines of one event loop.  A handler
\* runs from its first line to its return without a suspension.  The pipeline is
\* awaited by the response once the response has been sent; its body has no
\* await, so from its first line to its finally clause the loop runs nothing else.

MaxPeticiones == 4

InitHttp ==
    /\ stock_inicial = <<>>
    /\ stock = <<>>
    /\ df_ventas = <<>>
    /\ adu_map = <<>>
    /\ tiempos_df = {}
    /\ bodega_principal = <<BODEGA>>
    /\ no_seed = TRUE
    /\ allow_seed_if_adu = TRUE
    /\ pc = "http"
    /\ needs = <<>>
    /\ cur = NoCur
    /\ transfers = <<>>
    /\ traslados_fase1 = <<>>
    /\ traslados_fase2 = <<>>
    /\ traslados_fase3 = <<>>
    /\ opts = [enable_curvas |-> <<>>, enable_drenaje |-> <<>>, safety_ratio |-> <<>>]
    /\ total0 = 0
    /\ last = NoLast
    /\ ejecutados = <<>>
    /\ servida = NoServida
    /\ llamada = 1
    /\ execution_state = EstadoInicial
    /\ servidor = ServidorInicial
    /\ df_traslados = <<>>

\* what no step of the web application touches
resto_http == <<stock_inicial, stock, df_ventas, adu_map, tiempos_df, bodega_principal, no_seed, allow_seed_if_adu, pc, needs, cur, transfers, traslados_fase1, traslados_fase2, traslados_fase3, opts, total0, last, ejecutados, servida, llamada, df_traslados>>

\* the runs accepted and not finished
RunsPendientes == servidor.tareas + servidor.en_curso

\* the event loop is free to run a handler or to start a task
LoopLibre == servidor.en_curso = 0

Quitar(seq, i) == SubSeq(seq, 1, i - 1) \o SubSeq(seq, i + 1, Len(seq))

\* a request reaches the server, at any moment; it waits until the loop takes it
Llega ==
    /\ pc = "http"
    /\ servidor.llegadas < MaxPeticiones
    /\ \E tipo \in {"generate", "reset"} :
          servidor' = [servidor EXCEPT !.llegadas = @ + 1, !.buzon = Append(@, [tipo |-> tipo, durante |-> RunsPendientes > 0])]
    /\ UNCHANGED <<execution_state, resto_http>>

\* generate_traslados: 409 when running is set, else the pipeline is added as a
\* background task and the request is answered
GenerateTraslados ==
    /\ pc = "http"
    /\ LoopLibre
    /\ \E i \in DOMAIN servidor.buzon :
          LET peticion == servidor.buzon[i]
              codigo == IF execution_state.running THEN 409 ELSE 200
          IN  /\ peticion.tipo = "generate"
              /\ servidor' = [servidor EXCEPT !.buzon = Quitar(@, i), !.tareas = IF codigo = 200 THEN @ + 1 ELSE @, !.respuestas = Append(@, [tipo |-> "generate", durante |-> peticion.durante, codigo |-> codigo])]
    /\ UNCHANGED <<execution_state, resto_http>>

\* reset_state
ResetState ==
    /\ pc = "http"
    /\ LoopLibre
    /\ \E i \in DOMAIN servidor.buzon :
          /\ servidor.buzon[i].tipo = "reset"
          /\ servidor' = [servidor EXCEPT !.buzon = Quitar(@, i), !.respuestas = Append(@, [tipo |-> "reset", durante |-> servidor.buzon[i].durante, codigo |-> 200])]
    /\ execution_state' = [running |-> FALSE, progress |-> 0, error |-> <<>>]
    /\ UNCHANGED resto_http

\* run_traslados_pipeline, its first lines: the flag is set
PipelineStart ==
    /\ pc = "http"
    /\ LoopLibre
    /\ servidor.tareas > 0
    /\ servidor' = [servidor EXCEPT !.tareas = @ - 1, !.en_curso = @ + 1]
    /\ execution_state' = [execution_state EXCEPT !.running = TRUE, !.error = <<>>]
    /\ UNCHANGED resto_http

\* run_traslados_pipeline returns, with the files written or from the except
\* clause; the finally clause clears the flag
PipelineEnd ==
    /\ pc = "http"
    /\ servidor.en_curso > 0
    /\ servidor' = [servidor EXCEPT !.en_curso = @ - 1]
    /\ \E ok \in BOOLEAN :
          execution_state' = [running |-> FALSE, progress |-> IF ok THEN 100 ELSE 0, error |-> IF ok THEN <<>> ELSE <<"e">>]
    /\ UNCHANGED resto_http

NextHttp == Llega \/ GenerateTraslados \/ ResetState \/ PipelineStart \/ PipelineEnd

SpecHttp == InitHttp /\ [][NextHttp]_vars

\* C30: a generate request that arrives after a run was accepted and before
\* that run has finished is answered 409, so that at most one accepted run is
\* unfinished at a time.
C30_SingleRun ==
    \A n \in DOMAIN servidor.respuestas :
        LET r == servidor.respuestas[n]
        IN  r.tipo = "generate" /\ r.durante => r.codigo = 409

====
